---- MODULE Spec2Model ----
(***************************************************************************)
(* The indexing and query core of finder-core: the process-wide index      *)
(* handle slot (INDEX_STATE), the handles it refers to (tantivy index      *)
(* directory, reader snapshot, writer behind a mutex), and the public      *)
(* operations init_index, add_or_update_file, commit, close and search,    *)
(* called from several threads.  Every operation is cut into steps at the  *)
(* points where another thread can be scheduled in between: each read of   *)
(* the slot, each reader snapshot, each acquisition of the writer mutex.   *)
(* QuerySpec runs search on every small committed index, and FfiSpec the   *)
(* C ABI (fc_search, fc_free_results, fc_should_reindex) with the memory   *)
(* it hands to the C caller.                                               *)
(***************************************************************************)
EXTENDS Integers, Sequences, FiniteSets, TLC

\* ------------------------------------------------------------- bounds
\* Number of public calls started in one behaviour.
MaxCalls == 5
\* Number of library (tantivy / file system) failures injected in one behaviour.
MaxFaults == 1

Threads == {"t1", "t2"}
Dirs == {"d1"}
NoThread == "none"
NoHandle == 0

\* ------------------------------------------------------------- inputs
\* Option<T> is a sequence of length 0 (None) or 1 (Some(x)).
None == <<>>
Some(x) == <<x>>

\* FileMeta of one file (inode 1 on device 1) as first scanned, with a later
\* mtime, and renamed; and of a file on a file system without inodes.
MetaA == [path |-> "a.txt", name |-> "a.txt", ext |-> Some("txt"), modified_at |-> 1, size |-> 5, inode |-> 1, dev |-> 1]
MetaTouched == [MetaA EXCEPT !.modified_at = 2, !.size = 6]
MetaRenamed == [MetaA EXCEPT !.path = "b.txt", !.name = "b.txt"]
MetaNoInode == [path |-> "b.txt", name |-> "b.txt", ext |-> None, modified_at |-> 1, size |-> 5, inode |-> 0, dev |-> 0]

\* FileMeta of a file whose name holds a NUL byte (the Rust API takes any
\* String).
MetaNul == [path |-> "c.txt", name |-> "x<NUL>y", ext |-> None, modified_at |-> 3, size |-> 5, inode |-> 2, dev |-> 1]

\* FileMeta values whose (dev, inode) pairs share their digits; of a file on
\* a device that reports no inode; of a second file without inode, its ext
\* the empty string.
MetaInode12 == [MetaA EXCEPT !.inode = 12]
MetaDev11 == [MetaA EXCEPT !.inode = 2, !.dev = 11]
MetaDevOnly == [MetaNoInode EXCEPT !.dev = 1]
MetaNoInodeA == [MetaNoInode EXCEPT !.path = "a.txt", !.name = "a.txt", !.ext = Some("")]

\* FileMeta of hello.txt.
MetaHello == [path |-> "hello.txt", name |-> "hello.txt", ext |-> Some("txt"), modified_at |-> 1, size |-> 5, inode |-> 3, dev |-> 1]

Metas ==
  { MetaA, MetaTouched, MetaRenamed, MetaNoInode, MetaNul,
    MetaInode12, MetaDev11, MetaDevOnly, MetaNoInodeA, MetaHello }

\* The (meta, content_opt, force_reindex) arguments the callers pass to
\* add_or_update_file.
AddInputs ==
  { <<MetaA, Some("hello world"), FALSE>>,
    <<MetaA, Some("hello world"), TRUE>>,
    <<MetaTouched, None, FALSE>>,
    <<MetaRenamed, Some("hello world"), FALSE>>,
    <<MetaNoInode, Some("hello world"), FALSE>> }

\* FileMeta::default()
DefaultMeta ==
  [path |-> "", name |-> "", ext |-> None, modified_at |-> 0, size |-> 0, inode |-> 0, dev |-> 0]

\* identity deciding on the inode alone.
IdentityByInode(meta) ==
  IF meta.inode # 0
    THEN ToString(meta.dev) \o ":" \o ToString(meta.inode)
    ELSE "path:" \o meta.path

\* FileMeta::identity: "<dev>:<inode>" when either is non-zero, else "path:<path>".
identity(meta) ==
  IF meta.inode # 0 \/ meta.dev # 0
    THEN ToString(meta.dev) \o ":" \o ToString(meta.inode)
    ELSE "path:" \o meta.path

Identities == { identity(m) : m \in Metas \cup { DefaultMeta } }

\* IndexedDocument::from the stored fields of a document.
extract_indexed_document(doc) ==
  [path |-> doc.path, mtime |-> doc.mtime, size |-> doc.size]

\* matches_meta without the comparison of the path.
MatchesMetaSansPath(existing, meta) ==
  existing.mtime = meta.modified_at /\ existing.size = meta.size

\* matches_meta never matching a meta that has no inode.
MatchesMetaInodeGuard(existing, meta) ==
  /\ meta.inode # 0
  /\ existing.mtime = meta.modified_at /\ existing.size = meta.size /\ existing.path = meta.path

\* IndexedDocument::matches_meta

matches_meta(existing, meta) ==
  existing.mtime = meta.modified_at /\ existing.size = meta.size /\ existing.path = meta.path

\* A document that takes the content as it is supplied.
BuildDocumentAnyContent(meta, content_opt, op) ==
  [op |-> op,
   path |-> meta.path,
   name |-> meta.name,
   name_raw |-> meta.name,
   ext |-> meta.ext,
   identity |-> identity(meta),
   mtime |-> meta.modified_at,
   size |-> meta.size,
   inode |-> meta.inode,
   dev |-> meta.dev,
   content |-> content_opt]

\* The document add_or_update_file builds from meta and content_opt; op is
\* the opstamp the writer gives the add.
BuildDocument(meta, content_opt, op) ==
  [op |-> op,
   path |-> meta.path,
   name |-> meta.name,
   name_raw |-> meta.name,
   ext |-> meta.ext,
   identity |-> identity(meta),
   mtime |-> meta.modified_at,
   size |-> meta.size,
   inode |-> meta.inode,
   dev |-> meta.dev,
   content |-> IF content_opt # None /\ content_opt[1] # "" THEN content_opt ELSE None]

\* delete_term deleting nothing.
DeleteNothing(docs, id) == docs

\* delete_term deleting every document.
DeleteAllDocuments(docs, id) == <<>>

\* writer.delete_term(identity): every document of the writer's view that
\* carries the term and was added before the delete.
delete_term(docs, id) ==
  SelectSeq(docs, LAMBDA d : d.identity # id)

\* writer.add_document(doc)
add_document(docs, doc) == Append(docs, doc)

\* The documents of a snapshot that carry an identity term, best first.
TermQuery(docs, id) == SelectSeq(docs, LAMBDA d : d.identity = id)

\* A lookup that takes the newest document whatever its identity.
FindNewest(docs, id) ==
  IF docs = <<>> THEN None ELSE Some(extract_indexed_document(docs[Len(docs)]))

\* find_existing: top-1 term query on the reader snapshot.
find_existing(docs, id) ==
  LET top_docs == TermQuery(docs, id)
  IN IF top_docs = <<>> THEN None ELSE Some(extract_indexed_document(top_docs[1]))

\* ------------------------------------------------------------- state
VARIABLES
  INDEX_STATE,  \* the process-wide slot: NoHandle or the index of a handle
  INDEX_SETTINGS, \* the process-wide writer settings
  handles,      \* every IndexHandle built so far, in order of creation
  disk,         \* per directory: the documents of the last commit (meta.json)
  th,           \* per thread: where it is in its call, and its locals
  ret,          \* what the last call to return returned, and to which thread
  calls,        \* public calls started
  faults,       \* library failures injected
  heap,         \* C ABI: every allocation handed out, in order of allocation
  results,      \* C ABI: the FCResults structs the C caller owns
  freeing,      \* C ABI: the locals of the fc_free_results call in progress
  ffi_call      \* C ABI: the last call made, its arguments and what it returned

index_vars == <<INDEX_STATE, INDEX_SETTINGS, handles, disk, th, ret, calls, faults>>
ffi_vars == <<heap, results, freeing, ffi_call>>
vars ==
  <<INDEX_STATE, INDEX_SETTINGS, handles, disk, th, ret, calls, faults,
    heap, results, freeing, ffi_call>>

\* IndexSettings and its Default.
DEFAULT_WRITER_MEM_BYTES == 384 * 1024 * 1024
DEFAULT_WRITER_THREADS == 0
IndexSettings(threads, heap_bytes) == [writer_threads |-> threads, writer_heap_bytes |-> heap_bytes]
IndexSettings_default == IndexSettings(DEFAULT_WRITER_THREADS, DEFAULT_WRITER_MEM_BYTES)

\* num_cpus::get() on the machine of the model.
num_cpus == 4

max(a, b) == IF a >= b THEN a ELSE b

\* Settings never replaced by configure.
SettingsNeverConfigured == IndexSettings_default

\* current_settings(): a copy of the stored settings, under the read lock.
current_settings == INDEX_SETTINGS

\* init_index, lines 105-113: the thread count and heap size the IndexWriter
\* is created with.
writer_with_num_threads(settings) ==
  [threads |-> IF settings.writer_threads = 0
                 THEN max(num_cpus, 1)
                 ELSE max(settings.writer_threads, 1),
   heap |-> max(settings.writer_heap_bytes, 16 * 1024 * 1024)]

\* No IndexWriter.
NoWriter == [threads |-> 0, heap |-> 0]

\* No fc_free_results call in progress; no C ABI call made yet.
NoFree == [r |-> 0, hits_ptr |-> 0, count |-> 0]
NoFfiCall == [fn |-> "none"]

\* docs with the documents of doc's identity replaced by doc.
Replaced(docs, doc) ==
  Append(SelectSeq(docs, LAMBDA d : d.identity # doc.identity), doc)

ZeroStamps == [i \in Identities |-> 0]

\* The largest opstamp among documents (0 for none): where a new writer's
\* stamper starts.
MaxOp(docs) ==
  IF docs = <<>> THEN 0
  ELSE CHOOSE n \in { docs[k].op : k \in DOMAIN docs } :
         \A k \in DOMAIN docs : docs[k].op <= n

\* Fields index/reader/writer of IndexHandle.  reader is the snapshot the
\* IndexReader serves, writer the documents the IndexWriter would commit,
\* lock the owner of the Mutex around the writer, opstamp the writer's stamper,
\* created what the IndexWriter was created with.
\* The other fields are history, kept to state the properties:
\*   ideal    the writer's documents had every add_or_update_file call that
\*            returned an error never been made;
\*   broken   the identities whose last call to reach the writer failed;
\*   cideal, cbroken   ideal and broken as of the last successful writer.commit();
\*   visible  per identity, the opstamp of the add that a successfully
\*            returned commit has to have made visible.
HandleOn(dir, docs) ==
  [dir |-> dir, reader |-> docs, writer |-> docs, lock |-> NoThread,
   opstamp |-> MaxOp(docs),
   created |-> writer_with_num_threads(current_settings),
   ideal |-> docs, cideal |-> docs, broken |-> {}, cbroken |-> {},
   visible |-> ZeroStamps]

NewHandle(dir) == HandleOn(dir, disk[dir])

\* What is left of a handle once the last Arc<IndexHandle> is gone.
DroppedHandle(dir) ==
  [dir |-> dir, reader |-> <<>>, writer |-> <<>>, lock |-> NoThread,
   opstamp |-> 0,
   created |-> NoWriter,
   ideal |-> <<>>, cideal |-> <<>>, broken |-> {}, cbroken |-> {},
   visible |-> ZeroStamps]

DefaultQuery == [term |-> "", search_in |-> "Both", path_glob |-> None, limit |-> 50]

\* A thread's locals: h the Arc<IndexHandle> it holds, r the IndexReader it
\* cloned, meta/content/force/query its arguments, update and existing the
\* locals of add_or_update_file.  need and nh are history: the opstamps the
\* call must observe (see visible) and the handle they belong to; prev is the
\* document the previous add of the same identity wrote.  slot is the guard
\* on the RwLock of INDEX_STATE the thread holds: "none", "read" or "write".
Idle ==
  [pc |-> "idle", h |-> NoHandle, r |-> NoHandle, meta |-> DefaultMeta, content |-> None,
   force |-> FALSE, update |-> "Added", existing |-> None, query |-> DefaultQuery,
   need |-> ZeroStamps, nh |-> NoHandle, prev |-> None, slot |-> "none"]

\* Result<T>: Ok(val) and Err(chain of contexts, outermost first).  hits is
\* the Vec<SearchHit> of a search and snap the reader snapshot it ran on;
\* call is the state of the thread when the call returned.
NoReturn ==
  [op |-> "none", t |-> NoThread, ok |-> TRUE, val |-> "", err |-> <<>>, hits |-> <<>>,
   snap |-> <<>>, call |-> Idle]

Ok(op, val, call) == [NoReturn EXCEPT !.op = op, !.val = val, !.call = call]
Err(op, chain, call) == [NoReturn EXCEPT !.op = op, !.ok = FALSE, !.err = chain, !.call = call]

\* The value a call of thread t returns.
Returned(t, result) == [result EXCEPT !.t = t]

\* Arc<IndexHandle>: the slot and every call that cloned the handle hold one.
ArcHeld(sl, thr, h) == sl = h \/ \E t \in Threads : thr[t].h = h
\* A cloned IndexReader outlives the handle it was cloned from.
ReaderHeld(sl, thr, h) == ArcHeld(sl, thr, h) \/ \E t \in Threads : thr[t].r = h

\* Dropping the last reference drops the writer (its uncommitted documents
\* and its directory lock) and the reader.
\* Handles nothing refers to any more are forgotten from the end of the list.
Release(hs, sl, thr) ==
  LET named(h) == ReaderHeld(sl, thr, h) \/ \E t \in Threads : thr[t].nh = h
      n == IF \E h \in DOMAIN hs : named(h)
             THEN CHOOSE h \in DOMAIN hs : named(h) /\ \A g \in DOMAIN hs : g > h => ~named(g)
             ELSE 0
  IN [h \in 1..n |->
        IF ArcHeld(sl, thr, h) THEN hs[h]
        ELSE IF ReaderHeld(sl, thr, h)
          THEN [DroppedHandle(hs[h].dir) EXCEPT !.reader = hs[h].reader]
          ELSE DroppedHandle(hs[h].dir)]

\* tantivy's writer lock file: one live IndexWriter per directory.
WriterLockBusy(dir) ==
  \E h \in DOMAIN handles : handles[h].dir = dir /\ ArcHeld(INDEX_STATE, th, h)

CanCall(t) == th[t].pc = "idle" /\ calls < MaxCalls
CanFail == faults < MaxFaults

Init ==
  /\ INDEX_STATE = NoHandle
  /\ INDEX_SETTINGS = IndexSettings_default
  /\ handles = <<>>
  /\ disk = [d \in Dirs |-> <<>>]
  /\ th = [t \in Threads |-> Idle]
  /\ ret = NoReturn
  /\ calls = 0
  /\ faults = 0
  /\ heap = <<>>
  /\ results = <<>>
  /\ freeing = NoFree
  /\ ffi_call = NoFfiCall

\* ------------------------------------------------------------- lifecycle
\* index_handle() answering with the newest handle still around when the
\* slot is empty.
IndexHandleStale == IF INDEX_STATE = NoHandle THEN Len(handles) ELSE INDEX_STATE

\* index_handle(): the slot's handle, cloned under the read lock.
index_handle == INDEX_STATE

\* init_index clearing the slot before it builds the new handle.
InitFailureClearsSlot == NoHandle

\* What init_index leaves in the slot when it fails: the slot is written
\* last, after every step that can fail.
InitFailureSlot == INDEX_STATE

\* init_index(path), every step succeeding: the handle is built and installed.
init_index_ok(t, dir) ==
  /\ UNCHANGED <<INDEX_SETTINGS, ffi_vars>>
  /\ CanCall(t)
  /\ ~WriterLockBusy(dir)
  /\ LET hs == Append(handles, NewHandle(dir))
     IN /\ INDEX_STATE' = Len(hs)
        /\ handles' = Release(hs, Len(hs), th)
  /\ ret' = Returned(t, Ok("init", "", Idle))
  /\ calls' = calls + 1
  /\ UNCHANGED <<disk, th, faults>>

\* init_index(path) failing because another live writer holds the directory.
init_index_locked(t, dir) ==
  /\ UNCHANGED <<INDEX_SETTINGS, ffi_vars>>
  /\ CanCall(t)
  /\ WriterLockBusy(dir)
  /\ INDEX_STATE' = InitFailureSlot
  /\ ret' = Returned(t, Err("init", <<"failed to create tantivy writer">>, Idle))
  /\ calls' = calls + 1
  /\ UNCHANGED <<handles, disk, th, faults>>

\* init_index(path) failing in the file system (create_dir_all, MmapDirectory::open,
\* open_or_create, reader).
init_index_io(t, dir) ==
  /\ UNCHANGED <<INDEX_SETTINGS, ffi_vars>>
  /\ CanCall(t)
  /\ CanFail
  /\ INDEX_STATE' = InitFailureSlot
  /\ ret' = Returned(t, Err("init", <<"failed opening mmap directory">>, Idle))
  /\ calls' = calls + 1
  /\ faults' = faults + 1
  /\ UNCHANGED <<handles, disk, th>>

\* close() leaving the handle installed while a call still uses it.
CloseWhenUnused(t) ==
  /\ UNCHANGED <<INDEX_SETTINGS, ffi_vars>>
  /\ CanCall(t)
  /\ INDEX_STATE' = IF \E u \in Threads : th[u].h = INDEX_STATE THEN INDEX_STATE ELSE NoHandle
  /\ handles' = Release(handles, INDEX_STATE', th)
  /\ ret' = Returned(t, Ok("close", "", Idle))
  /\ calls' = calls + 1
  /\ UNCHANGED <<disk, th, faults>>

\* A close() that commits what the writer holds before it clears the slot.
CloseCommits(t) ==
  /\ UNCHANGED <<INDEX_SETTINGS, ffi_vars>>
  /\ CanCall(t)
  /\ disk' = IF INDEX_STATE = NoHandle THEN disk
             ELSE [disk EXCEPT ![handles[INDEX_STATE].dir] = handles[INDEX_STATE].writer]
  /\ INDEX_STATE' = NoHandle
  /\ handles' = Release(handles, NoHandle, th)
  /\ ret' = Returned(t, Ok("close", "", Idle))
  /\ calls' = calls + 1
  /\ UNCHANGED <<th, faults>>

\* close(): clears the slot.
close(t) ==
  /\ UNCHANGED <<INDEX_SETTINGS, ffi_vars>>
  /\ CanCall(t)
  /\ INDEX_STATE' = NoHandle
  /\ handles' = Release(handles, NoHandle, th)
  /\ ret' = Returned(t, Ok("close", "", Idle))
  /\ calls' = calls + 1
  /\ UNCHANGED <<disk, th, faults>>

\* configure(settings): replaces the stored settings under the write lock.
configure(t, settings) ==
  /\ UNCHANGED ffi_vars
  /\ CanCall(t)
  /\ INDEX_SETTINGS' = settings
  /\ ret' = Returned(t, Ok("configure", "", Idle))
  /\ calls' = calls + 1
  /\ UNCHANGED <<INDEX_STATE, handles, disk, th, faults>>

\* ------------------------------------------------------------- indexer
\* The writer used without its mutex.
NoWriterMutex(h) == TRUE

\* handle.writer.lock(): the mutex is free.
WriterMutexFree(h) == handles[h].lock = NoThread

\* The thread is back in its caller: its Arc and reader clone are dropped.
Return(t, hs, result) ==
  LET thr == [th EXCEPT ![t] = Idle]
  IN /\ th' = thr
     /\ handles' = Release(hs, INDEX_STATE, thr)
     /\ ret' = Returned(t, result)

\* An add_or_update_file that looks the identity up whatever force_reindex is.
AddAlwaysFinds(force_reindex) == "add_find"

\* add_or_update_file, line 155, if !force_reindex: where the call goes after
\* it has its handle, to the lookup in the reader or straight to the writer.
add_entry(force_reindex) == IF force_reindex THEN "add_lock" ELSE "add_find"

\* add_or_update_file, lines 150-151: index_handle()? and meta.identity().
add_or_update_file_begin(t, meta, content_opt, force_reindex) ==
  /\ CanCall(t)
  /\ calls' = calls + 1
  /\ UNCHANGED <<INDEX_STATE, disk, faults>>
  /\ IF index_handle = NoHandle
       THEN /\ ret' = Returned(t, Err("add", <<"index not initialized">>, Idle))
            /\ UNCHANGED <<handles, th>>
       ELSE /\ th' = [th EXCEPT ![t] =
                 [Idle EXCEPT !.pc = add_entry(force_reindex),
                              !.h = index_handle, !.meta = meta, !.content = content_opt,
                              !.force = force_reindex,
                              !.prev = find_existing(handles[index_handle].ideal, identity(meta))]]
            /\ ret' = NoReturn
            /\ UNCHANGED handles

\* add_or_update_file called from Rust.
AddHandle(t, meta, content_opt, force_reindex) ==
  /\ UNCHANGED <<INDEX_SETTINGS, ffi_vars>>
  /\ add_or_update_file_begin(t, meta, content_opt, force_reindex)

\* A searcher that sees what the writer holds.
SearcherOnWriter(h) == handles[h].writer

\* reader.searcher(): the snapshot the reader last loaded.
searcher(h) == handles[h].reader

\* add_or_update_file, lines 155-162: the lookup in the reader snapshot.
AddFindExisting(t) ==
  /\ UNCHANGED <<INDEX_SETTINGS, ffi_vars>>
  /\ th[t].pc = "add_find"
  /\ UNCHANGED <<INDEX_STATE, disk, calls>>
  /\ LET existing == find_existing(searcher(th[t].h), identity(th[t].meta))
         me == [th[t] EXCEPT !.existing = existing]
     IN \/ /\ existing # None
           /\ matches_meta(existing[1], th[t].meta)
           /\ Return(t, handles, Ok("add", "Skipped", me))
           /\ UNCHANGED faults
        \/ /\ existing # None
           /\ ~matches_meta(existing[1], th[t].meta)
           /\ th' = [th EXCEPT ![t] = [me EXCEPT !.pc = "add_lock", !.update = "Updated"]]
           /\ UNCHANGED <<handles, ret, faults>>
        \/ /\ existing = None
           /\ th' = [th EXCEPT ![t] = [me EXCEPT !.pc = "add_lock"]]
           /\ UNCHANGED <<handles, ret, faults>>
        \/ /\ CanFail
           /\ faults' = faults + 1
           /\ Return(t, handles, Err("add", <<"term query failed">>, th[t]))

\* add_or_update_file, lines 165-168: take the writer mutex, delete_term.
AddDeleteTerm(t) ==
  /\ UNCHANGED <<INDEX_SETTINGS, ffi_vars>>
  /\ th[t].pc = "add_lock"
  /\ WriterMutexFree(th[t].h)
  /\ handles' = [handles EXCEPT ![th[t].h] =
        [@ EXCEPT !.lock = t, !.writer = delete_term(@, identity(th[t].meta))]]
  /\ th' = [th EXCEPT ![t].pc = "add_doc"]
  /\ UNCHANGED <<INDEX_STATE, disk, ret, calls, faults>>

\* add_or_update_file, lines 170-193: build the document, add_document,
\* release the mutex (the guard's scope ends, also on the error path).
AddDocument(t) ==
  /\ UNCHANGED <<INDEX_SETTINGS, ffi_vars>>
  /\ th[t].pc = "add_doc"
  /\ UNCHANGED <<INDEX_STATE, disk, calls>>
  /\ LET h == th[t].h
         id == identity(th[t].meta)
         op == handles[h].opstamp + 1
         doc == BuildDocument(th[t].meta, th[t].content, op)
     IN \/ /\ Return(t, [handles EXCEPT ![h] =
                           [@ EXCEPT !.lock = NoThread,
                                     !.writer = add_document(@, doc),
                                     !.opstamp = op,
                                     !.ideal = Replaced(@, doc),
                                     !.broken = @ \ { id }]],
                     Ok("add", th[t].update, th[t]))
           /\ UNCHANGED faults
        \/ /\ CanFail
           /\ faults' = faults + 1
           /\ Return(t, [handles EXCEPT ![h] =
                           [@ EXCEPT !.lock = NoThread, !.broken = @ \cup { id }]],
                     Err("add", <<"failed adding document to index">>, th[t]))

add_or_update_file(t) ==
  \/ \E input \in AddInputs : AddHandle(t, input[1], input[2], input[3])
  \/ AddFindExisting(t)
  \/ AddDeleteTerm(t)
  \/ AddDocument(t)

\* Per identity, the opstamp of its newest document among docs (0 for none).
StampsOf(docs) == [i \in Identities |-> MaxOp(TermQuery(docs, i))]

\* Pointwise maximum of two opstamp maps.
MaxStamps(a, b) == [i \in Identities |-> IF a[i] >= b[i] THEN a[i] ELSE b[i]]

\* commit, line 197: index_handle()?.
CommitHandle(t) ==
  /\ UNCHANGED <<INDEX_SETTINGS, ffi_vars>>
  /\ CanCall(t)
  /\ calls' = calls + 1
  /\ UNCHANGED <<INDEX_STATE, disk, faults>>
  /\ IF index_handle = NoHandle
       THEN /\ ret' = Returned(t, Err("commit", <<"index not initialized">>, Idle))
            /\ UNCHANGED <<handles, th>>
       ELSE /\ th' = [th EXCEPT ![t] =
                 [Idle EXCEPT !.pc = "commit_lock", !.h = index_handle,
                              !.nh = index_handle,
                              !.need = StampsOf(handles[index_handle].ideal)]]
            /\ ret' = NoReturn
            /\ UNCHANGED handles

\* A commit that adds the writer's documents to the committed ones.
CommitAppended(committed, staged) == committed \o staged

\* writer.commit(): the committed index becomes what the writer holds.
writer_commit(committed, staged) == staged

\* commit, lines 198-201: take the writer mutex, writer.commit(), release.
CommitWriter(t) ==
  /\ UNCHANGED <<INDEX_SETTINGS, ffi_vars>>
  /\ th[t].pc = "commit_lock"
  /\ WriterMutexFree(th[t].h)
  /\ UNCHANGED <<INDEX_STATE, calls>>
  /\ \/ /\ disk' = [disk EXCEPT ![handles[th[t].h].dir] = writer_commit(@, handles[th[t].h].writer)]
        /\ handles' = [handles EXCEPT ![th[t].h] =
              [@ EXCEPT !.cideal = handles[th[t].h].ideal,
                        !.cbroken = handles[th[t].h].broken]]
        /\ th' = [th EXCEPT ![t].pc = "commit_reload"]
        /\ UNCHANGED <<ret, faults>>
     \/ /\ CanFail
        /\ faults' = faults + 1
        /\ Return(t, handles, Err("commit", <<"tantivy commit failed">>, th[t]))
        /\ UNCHANGED disk

\* reader.reload(): the reader serves the last commit of its directory.
reload(h) == [handles EXCEPT ![h].reader = disk[handles[h].dir]]

\* commit, lines 202-206: reader.reload() and return.
CommitReload(t) ==
  /\ UNCHANGED <<INDEX_SETTINGS, ffi_vars>>
  /\ th[t].pc = "commit_reload"
  /\ UNCHANGED <<INDEX_STATE, disk, calls>>
  /\ \/ /\ Return(t, [reload(th[t].h) EXCEPT ![th[t].h].visible = MaxStamps(@, th[t].need)],
                  Ok("commit", "", th[t]))
        /\ UNCHANGED faults
     \/ /\ CanFail
        /\ faults' = faults + 1
        /\ Return(t, handles, Err("commit", <<"failed to reload index reader">>, th[t]))

commit(t) == CommitHandle(t) \/ CommitWriter(t) \/ CommitReload(t)

\* index.reader(), line 103: the reader is built with tantivy's default
\* reload policy, which reloads it by itself some time after a commit.
ReaderWatcher(h) ==
  /\ UNCHANGED <<INDEX_SETTINGS, ffi_vars>>
  /\ ReaderHeld(INDEX_STATE, th, h)
  /\ handles[h].reader # disk[handles[h].dir]
  /\ handles' = reload(h)
  /\ UNCHANGED <<INDEX_STATE, disk, th, ret, calls, faults>>

\* ------------------------------------------------------------- query
\* SearchQuery values the callers pass in.
Queries ==
  { [term |-> "hello", search_in |-> "Both", path_glob |-> None, limit |-> 10],
    [term |-> " ", search_in |-> "Both", path_glob |-> None, limit |-> 10] }

\* A term taken as it comes.
Untrimmed(s) == s

\* str::trim on the terms and patterns of the model.
trim(s) ==
  CASE s = " " -> ""
    [] s = " a* " -> "a*"
    [] OTHER -> s

\* The patterns of the model GlobBuilder::build rejects (an unclosed class).
UnparseableGlobs == { "[" }

\* char::is_whitespace somewhere in a trimmed term of the model.
contains_whitespace(s) == s \in { "hello world", "hello zzz" }

\* tantivy's default analyzer (split at non-alphanumerics, lower-case) on
\* the names and contents of the model.
Tokens(s) ==
  CASE s = "hello world" -> { "hello", "world" }
    [] s = "hello zzz" -> { "hello", "zzz" }
    [] s = "a.txt" -> { "a", "txt" }
    [] s = "b.txt" -> { "b", "txt" }
    [] s = "hello.txt" -> { "hello", "txt" }
    [] s = "x<NUL>y" -> { "x", "y" }
    [] s \in { "hello", "hel", "zzz", "world", "a", "b", "txt" } -> { s }
    [] OTHER -> {}

\* The strings of the model that start with a given term (the regex
\* ^<escape(term)>.* on the untokenized name_raw).
StartsWith(s, term) ==
  CASE s = "a.txt" -> term \in { "a", "a.", "a.t", "a.tx", "a.txt" }
    [] s = "b.txt" -> term \in { "b", "b.", "b.t", "b.tx", "b.txt" }
    [] s = "x<NUL>y" -> term \in { "x" }
    [] s = "hello.txt" -> term \in { "h", "he", "hel", "hell", "hello", "hello.txt" }
    [] OTHER -> FALSE

NameInScope(query) == query.search_in \in { "Name", "Both" }

\* A scope that always covers the content.
ContentAlwaysInScope(query) == TRUE

ContentInScope(query) == query.search_in \in { "Content", "Both" }

\* Scores in tenths, each matching term clause counting 1.0 before boosts:
\* field boost 2.0 on name, 1.5 on the parsed query when name is in scope,
\* 3.0 on the prefix clause.  The parser splits the term into its tokens and
\* requires every one of them (set_conjunction_by_default) in one of the
\* fields in scope.
ParsedScore(doc, query) ==
  LET terms == Tokens(trim(query.term))
      in_name == { q \in terms : NameInScope(query) /\ q \in Tokens(doc.name) }
      in_content == { q \in terms : ContentInScope(query) /\ doc.content # None
                                      /\ q \in Tokens(doc.content[1]) }
      raw == 20 * Cardinality(in_name) + 10 * Cardinality(in_content)
  IN IF terms = {} \/ terms # in_name \cup in_content THEN 0
     ELSE IF NameInScope(query) THEN (raw * 3) \div 2 ELSE raw

\* The pattern of line 95, format!("^{}.*", escape(trimmed)): the anchor, the
\* literal prefix (escape leaves the terms of the model as they are) and the
\* tail.
prefix_pattern(trimmed) == [anchor |-> "^", literal |-> trimmed, tail |-> ".*"]

\* RegexQuery::from_pattern: tantivy compiles the pattern with tantivy_fst's
\* Regex, which matches whole terms and rejects the zero-width assertions
\* ^ and $ (Error::NoEmpty).
RegexQuery_from_pattern(pattern) ==
  IF pattern.anchor # "" THEN None ELSE Some(pattern)

\* The prefix clause, lines 90-100: added when name is in scope, the term
\* holds no whitespace and the pattern compiles.
PrefixScore(doc, query) ==
  LET trimmed == trim(query.term)
      regex_query == RegexQuery_from_pattern(prefix_pattern(trimmed))
  IN IF /\ NameInScope(query)
        /\ ~contains_whitespace(trimmed)
        /\ regex_query # None
        /\ StartsWith(doc.name_raw, regex_query[1].literal)
       THEN 30 ELSE 0

Score(doc, query) == ParsedScore(doc, query) + PrefixScore(doc, query)

\* Positions of the snapshot's matching documents, best score first, equal
\* scores in document order: TopDocs::with_limit(limit.max(1)).
RECURSIVE TopDocs(_, _, _, _)
TopDocs(docs, query, k, taken) ==
  LET left == { i \in DOMAIN docs : i \notin taken /\ Score(docs[i], query) > 0 }
  IN IF k = 0 \/ left = {} THEN <<>>
     ELSE LET best == CHOOSE i \in left :
                        \A j \in left :
                          \/ Score(docs[i], query) > Score(docs[j], query)
                          \/ Score(docs[i], query) = Score(docs[j], query) /\ i <= j
          IN <<best>> \o TopDocs(docs, query, k - 1, taken \cup { best })

\* build_glob_matcher compiling no pattern at all.
NoGlobMatcher(pattern) == None

\* build_glob_matcher: None for an absent or blank pattern, the matcher of
\* the trimmed pattern otherwise.
build_glob_matcher(pattern) ==
  IF pattern = None \/ trim(pattern[1]) = "" THEN None ELSE Some(trim(pattern[1]))

\* A glob builder that accepts every pattern.
GlobNeverInvalid(pattern) == FALSE

\* build_glob_matcher returns Err: the trimmed pattern does not compile.
GlobInvalid(pattern) ==
  pattern # None /\ trim(pattern[1]) # "" /\ trim(pattern[1]) \in UnparseableGlobs

\* GlobMatcher::is_match, case-insensitive, on the patterns and paths of the
\* model.
is_match(matcher, path) ==
  CASE matcher \in { "a*", "A*" } -> path \in { "a.txt" }
    [] matcher = " a* " -> FALSE
    [] OTHER -> FALSE

SearchHit(doc, score) ==
  [path |-> doc.path, name |-> doc.name, score |-> score,
   modified_at |-> Some(doc.mtime), size |-> Some(doc.size)]

unwrap_or_0(opt) == IF opt = None THEN 0 ELSE opt[1]

\* A comparator on the score alone.
ScoreOnlyBefore(a, b) == a.score > b.score

\* The comparator of hits.sort_by: a before b.
HitBefore(a, b) ==
  \/ a.score > b.score
  \/ a.score = b.score /\ unwrap_or_0(a.modified_at) > unwrap_or_0(b.modified_at)

\* hits.sort_by: a stable sort.
RECURSIVE SortHits(_)
SortHits(hits) ==
  IF hits = <<>> THEN <<>>
  ELSE LET first == CHOOSE i \in DOMAIN hits :
                      /\ \A j \in DOMAIN hits : ~HitBefore(hits[j], hits[i])
                      /\ \A j \in 1..(i - 1) : HitBefore(hits[i], hits[j])
           rest == [k \in 1..(Len(hits) - 1) |-> IF k < first THEN hits[k] ELSE hits[k + 1]]
       IN <<hits[first]>> \o SortHits(rest)

\* A collector asked for every document of the index.
LimitIgnored(limit) == limit + 2

\* query.limit.max(1)
limit_max_1(limit) == IF limit >= 1 THEN limit ELSE 1

\* A search that filters by the glob before it collects the top documents.
RunQueryFilterFirst(docs, query) ==
  LET limit == limit_max_1(query.limit)
      glob_matcher == build_glob_matcher(query.path_glob)
      kept == SelectSeq(docs,
                LAMBDA d : glob_matcher = None \/ is_match(glob_matcher[1], d.path))
      top_docs == TopDocs(kept, query, limit, {})
  IN SortHits([k \in DOMAIN top_docs |-> SearchHit(kept[top_docs[k]], Score(kept[top_docs[k]], query))])

\* search, lines 108-152, on a reader snapshot.
RunQuery(docs, query) ==
  LET limit == limit_max_1(query.limit)
      top_docs == TopDocs(docs, query, limit, {})
      glob_matcher == build_glob_matcher(query.path_glob)
      kept == SelectSeq(top_docs,
                LAMBDA i : glob_matcher = None \/ is_match(glob_matcher[1], docs[i].path))
  IN SortHits([k \in DOMAIN kept |-> SearchHit(docs[kept[k]], Score(docs[kept[k]], query))])

\* search on the snapshot docs, once the handle, the reader and the fields
\* are at hand.
search_outcome(docs, query, call) ==
  IF trim(query.term) = "" THEN Ok("search", "", call)
  ELSE IF GlobInvalid(query.path_glob)
    THEN Err("search", <<"invalid glob pattern">>, call)
  ELSE [Ok("search", "", call) EXCEPT !.hits = RunQuery(docs, query), !.snap = docs]

\* search, lines 52-57: the blank-term return and indexer::index().
SearchIndex(t, query) ==
  /\ UNCHANGED <<INDEX_SETTINGS, ffi_vars>>
  /\ CanCall(t)
  /\ calls' = calls + 1
  /\ UNCHANGED <<INDEX_STATE, disk, handles, faults>>
  /\ IF trim(query.term) = ""
       THEN /\ ret' = Returned(t, Ok("search", "", [Idle EXCEPT !.query = query]))
            /\ UNCHANGED th
       ELSE IF index_handle = NoHandle
       THEN /\ ret' = Returned(t, Err("search", <<"index not initialized", "index not initialized">>,
                     [Idle EXCEPT !.query = query]))
            /\ UNCHANGED th
       ELSE /\ th' = [th EXCEPT ![t] =
                 [Idle EXCEPT !.pc = "search_reader", !.query = query,
                              !.nh = index_handle,
                              !.need = handles[index_handle].visible]]
            /\ ret' = NoReturn

\* search, line 58: indexer::reader().
SearchReader(t) ==
  /\ UNCHANGED <<INDEX_SETTINGS, ffi_vars>>
  /\ th[t].pc = "search_reader"
  /\ UNCHANGED <<INDEX_STATE, disk, calls, faults>>
  /\ IF index_handle = NoHandle
       THEN Return(t, handles,
                   Err("search", <<"reader not available", "index not initialized">>, th[t]))
       ELSE /\ th' = [th EXCEPT ![t] =
                 [@ EXCEPT !.pc = "search_fields", !.r = index_handle,
                           !.nh = index_handle,
                           !.need = IF index_handle = th[t].nh THEN @ ELSE ZeroStamps]]
            /\ UNCHANGED <<handles, ret>>

\* search, lines 59-152: indexer::fields(), then the query on the snapshot
\* of the cloned reader.
SearchRun(t) ==
  /\ UNCHANGED <<INDEX_SETTINGS, ffi_vars>>
  /\ th[t].pc = "search_fields"
  /\ UNCHANGED <<INDEX_STATE, disk, calls>>
  /\ \/ /\ index_handle = NoHandle
        /\ Return(t, handles, Err("search", <<"index not initialized">>, th[t]))
        /\ UNCHANGED faults
     \/ /\ index_handle # NoHandle
        /\ Return(t, handles, search_outcome(searcher(th[t].r), th[t].query, th[t]))
        /\ UNCHANGED faults
     \/ /\ index_handle # NoHandle
        /\ CanFail
        /\ faults' = faults + 1
        /\ Return(t, handles, Err("search", <<"tantivy search execution failed">>, th[t]))

search(t) == (\E query \in Queries : SearchIndex(t, query)) \/ SearchReader(t) \/ SearchRun(t)

init_index(t) ==
  \E dir \in Dirs : init_index_ok(t, dir) \/ init_index_locked(t, dir) \/ init_index_io(t, dir)

Next ==
  \/ \E t \in Threads :
       init_index(t) \/ close(t) \/ add_or_update_file(t) \/ commit(t) \/ search(t)
  \/ \E h \in DOMAIN handles : ReaderWatcher(h)

Spec == Init /\ [][Next]_vars

\* ------------------------------------------------------------- search on
\* ------------------------------------------------------------- any index
\* Documents in one committed index.
MaxDocs == 3
\* Calls made on one committed index.
MaxQueryCalls == 2

\* The (meta, content) pairs the committed documents were added with.
IndexedInputs ==
  { <<MetaA, Some("hello world")>>, <<MetaTouched, None>>,
    <<MetaNoInode, Some("hello world")>>, <<MetaNul, Some("hello world")>> }

\* The committed indexes: up to MaxDocs documents, one per identity, in the
\* order they were added.
Snapshots ==
  { [k \in DOMAIN s |-> BuildDocument(s[k][1], s[k][2], k)] :
      s \in { x \in UNION { [1..n -> IndexedInputs] : n \in 0..MaxDocs } :
                \A i, j \in DOMAIN x : identity(x[i][1]) = identity(x[j][1]) => i = j } }

\* The SearchQuery values of the Rust callers.
SearchQueries ==
  [term : { "hello", "a", " " },
   search_in : { "Name", "Content", "Both" },
   path_glob : { None, Some(""), Some(" "), Some("a*"), Some("A*"), Some(" a* "), Some("[") },
   limit : { 0, 1, 2 }]

\* An index opened on a committed directory, nothing else going on.
OpenedOn(docs) ==
  /\ INDEX_SETTINGS = IndexSettings_default
  /\ INDEX_STATE = 1
  /\ handles = <<HandleOn("d1", docs)>>
  /\ disk = [d \in Dirs |-> docs]
  /\ th = [t \in Threads |-> Idle]
  /\ ret = NoReturn
  /\ calls = 0
  /\ faults = 0

QueryInit ==
  /\ \E docs \in Snapshots : OpenedOn(docs)
  /\ heap = <<>>
  /\ results = <<>>
  /\ freeing = NoFree
  /\ ffi_call = NoFfiCall

\* One caller searching and closing.
QueryNext ==
  \/ \E query \in SearchQueries : calls < MaxQueryCalls /\ SearchIndex("t1", query)
  \/ SearchReader("t1")
  \/ SearchRun("t1")
  \/ calls < MaxQueryCalls /\ close("t2")

QuerySpec == QueryInit /\ [][QueryNext]_vars

\* ------------------------------------------------------------- search
\* ------------------------------------------------------------- scopes
\* The (meta, content) pairs of the documents searched by scope.
ScopeInputs ==
  { <<MetaHello, None>>, <<MetaHello, Some("zzz")>>,
    <<MetaA, Some("hello world")>>, <<MetaNoInode, Some("hello zzz")>> }

\* The committed indexes holding them: up to MaxDocs documents, one per
\* identity.
ScopeSnapshots ==
  { [k \in DOMAIN s |-> BuildDocument(s[k][1], s[k][2], k)] :
      s \in { x \in UNION { [1..n -> ScopeInputs] : n \in 0..MaxDocs } :
                \A i, j \in DOMAIN x : identity(x[i][1]) = identity(x[j][1]) => i = j } }

\* Queries of one and of two words, in every scope.
ScopeQueries ==
  [term : { "hel", "zzz", "hello", "hello world", "hello zzz" },
   search_in : { "Name", "Content", "Both" },
   path_glob : { None, Some("a*") },
   limit : { 1, 10 }]

ScopeInit ==
  /\ \E docs \in ScopeSnapshots : OpenedOn(docs)
  /\ heap = <<>>
  /\ results = <<>>
  /\ freeing = NoFree
  /\ ffi_call = NoFfiCall

ScopeNext ==
  \/ \E query \in ScopeQueries : calls < MaxQueryCalls /\ SearchIndex("t1", query)
  \/ SearchReader("t1")
  \/ SearchRun("t1")
  \/ calls < MaxQueryCalls /\ close("t2")

ScopeSpec == ScopeInit /\ [][ScopeNext]_vars

\* ------------------------------------------------------------- C ABI
\* The strings of the model that hold a NUL byte.
InteriorNul == { "x<NUL>y" }

\* CString::new taking any string.
CStringUnchecked(s) == Some(s)

\* CString::new
CString_new(s) == IF s \in InteriorNul THEN None ELSE Some(s)

\* An FCHit with the size where the mtime belongs.
FCHitSizeAsMtime(hit) ==
  [path |-> hit.path, name |-> hit.name, mtime |-> unwrap_or_0(hit.size),
   size |-> unwrap_or_0(hit.size), score |-> hit.score]

\* FCHit as fc_search fills it in, lines 165-171.
FCHit(hit) ==
  [path |-> hit.path, name |-> hit.name, mtime |-> unwrap_or_0(hit.modified_at),
   size |-> unwrap_or_0(hit.size), score |-> hit.score]

\* fc_add_or_update on a readable meta: true for Added, Updated and Skipped.
fc_add_or_update(result) == result.ok

\* fc_commit_and_refresh
fc_commit_and_refresh(result) == result.ok

\* fc_search on a readable query: the FCResults built from what search
\* returned, <<>> standing for the null pointer.
fc_search(result) ==
  LET hits == IF result.ok THEN result.hits ELSE <<>>
      kept == SelectSeq(hits, LAMBDA x : CString_new(x.path) # None /\ CString_new(x.name) # None)
      ffi_hits == [k \in DOMAIN kept |-> FCHit(kept[k])]
  IN [hits |-> ffi_hits, count |-> Len(ffi_hits)]

\* ------------------------------------------------------------- C ABI:
\* ------------------------------------------------------------- memory
\* FCResults structs the C caller holds in one behaviour.
MaxResults == 2
\* fc_free_results calls on one struct.
MaxFrees == 2

\* ptr::null_mut(): allocations are numbered from 1.
NullPtr == 0

\* A C string pointer argument is None (null) or Some(bytes); the byte
\* strings of the model that are not UTF-8 decode with U+FFFD.
to_string_lossy(bytes) == IF bytes = "caf<E9>" THEN "caf<FFFD>" ELSE bytes

\* to_string
to_string(ptr) == IF ptr = None THEN None ELSE Some(to_string_lossy(ptr[1]))

\* Option<String>::unwrap_or_default
unwrap_or_default(opt) == IF opt = None THEN "" ELSE opt[1]

\* fc_search, lines 118-123: the scope.
decode_scope(scope) ==
  CASE scope = 0 -> "Name"
    [] scope = 1 -> "Content"
    [] scope = 2 -> "Both"
    [] OTHER -> "Both"

\* A limit passed on as it came.
LimitPassedOn(limit) == limit

\* fc_search, lines 124-128: the limit.
decode_limit(limit) == IF limit <= 0 THEN 50 ELSE limit

\* fc_search, lines 116-135: the SearchQuery built from the FCQuery.
search_query(fcq) ==
  [term |-> unwrap_or_default(to_string(fcq.q)),
   search_in |-> decode_scope(fcq.scope),
   path_glob |-> to_string(fcq.glob),
   limit |-> decode_limit(fcq.limit)]

\* The FCQuery structs the C callers pass.
FCQueries ==
  [q : { None, Some("hello") },
   glob : { None },
   scope : { -1, 0, 1, 2, 3 },
   limit : { -1, 0, 1, 2 }]

\* search(query) run from its first line to its return with no other call
\* in between.
search_call(query) ==
  IF trim(query.term) = "" THEN Ok("search", "", [Idle EXCEPT !.query = query])
  ELSE IF index_handle = NoHandle
    THEN Err("search", <<"index not initialized", "index not initialized">>,
             [Idle EXCEPT !.query = query])
  ELSE search_outcome(searcher(index_handle), query, [Idle EXCEPT !.query = query])

\* An allocation: a C string (CString::into_raw) or a hit array
\* (Box<[FCHit]>), live until freed; frees counts the times it was freed.
CStringAlloc(str) == [kind |-> "cstring", str |-> str, arr |-> <<>>, live |-> TRUE, frees |-> 0]
HitsAlloc(arr) == [kind |-> "hits", str |-> "", arr |-> arr, live |-> TRUE, frees |-> 0]

\* A CString built and dropped inside fc_search.
DroppedCString(str) == [CStringAlloc(str) EXCEPT !.live = FALSE, !.frees = 1]

\* fc_search, lines 155-174: the loop over the hits.  Both CString::new are
\* evaluated; a hit with an interior NUL is skipped and what was built of it
\* is dropped.
RECURSIVE MarshalHits(_, _, _)
MarshalHits(hits, hp, ffi_hits) ==
  IF hits = <<>> THEN [heap |-> hp, ffi_hits |-> ffi_hits]
  ELSE LET hit == Head(hits)
           path_cstr == CString_new(hit.path)
           name_cstr == CString_new(hit.name)
       IN IF path_cstr # None /\ name_cstr # None
            THEN MarshalHits(Tail(hits),
                             hp \o <<CStringAlloc(path_cstr[1]), CStringAlloc(name_cstr[1])>>,
                             Append(ffi_hits,
                                    [FCHit(hit) EXCEPT !.path = Len(hp) + 1, !.name = Len(hp) + 2]))
            ELSE MarshalHits(Tail(hits),
                             hp \o (IF path_cstr # None THEN <<DroppedCString(path_cstr[1])>> ELSE <<>>)
                                \o (IF name_cstr # None THEN <<DroppedCString(name_cstr[1])>> ELSE <<>>),
                             ffi_hits)

\* The FCResults struct; made and freed are history: the hits pointer it was
\* returned with and the number of fc_free_results calls made on it.
FCResults(hits, count) == [hits |-> hits, count |-> count, made |-> hits, freed |-> 0]

\* The C caller is between two calls and may keep another struct.
FfiCanCall == freeing = NoFree

\* fc_search(query): query is None (a null pointer) or Some(FCQuery).
FcSearch(query) ==
  /\ FfiCanCall
  /\ Len(results) < MaxResults
  /\ \E result \in { IF query = None THEN Err("search", <<"null query pointer">>, Idle)
                       ELSE search_call(search_query(query[1])) } :
       \E m \in { MarshalHits(IF result.ok THEN result.hits ELSE <<>>, heap, <<>>) } :
         \E hp \in { IF m.ffi_hits = <<>> THEN m.heap
                      ELSE Append(m.heap, HitsAlloc(m.ffi_hits)) } :
           \E returned \in { IF m.ffi_hits = <<>> THEN FCResults(NullPtr, 0)
                               ELSE FCResults(Len(hp), Len(m.ffi_hits)) } :
             /\ heap' = hp
             /\ results' = Append(results, returned)
             /\ ffi_call' = [fn |-> "fc_search", query |-> query, result |-> result,
                             returned |-> returned, before |-> Len(heap)]
  /\ UNCHANGED <<index_vars, freeing>>

\* The C caller sets up a struct of its own with no hits in it.
CallerResults(count) ==
  /\ FfiCanCall
  /\ Len(results) < MaxResults
  /\ results' = Append(results, FCResults(NullPtr, count))
  /\ ffi_call' = [fn |-> "caller"]
  /\ UNCHANGED <<index_vars, heap, freeing>>

\* fc_free_results leaving the struct as it found it.
ResultsKept(r) == r

\* fc_free_results, lines 200-201 and 208-209: hits = null, count = 0.
ResultsNulled(r) == [r EXCEPT !.hits = NullPtr, !.count = 0]

\* fc_free_results(results), lines 192-209: results is NullPtr or the
\* struct r of the caller.
FcFreeGuard(r) ==
  /\ FfiCanCall
  /\ r # NullPtr => results[r].freed < MaxFrees
  /\ ffi_call' = [fn |-> "fc_free_results", r |-> r]
  /\ UNCHANGED <<index_vars, heap>>
  /\ IF r = NullPtr
       THEN UNCHANGED <<results, freeing>>
       ELSE IF results[r].hits = NullPtr \/ results[r].count <= 0
         THEN /\ results' = [results EXCEPT ![r] = [ResultsNulled(@) EXCEPT !.freed = @ + 1]]
              /\ UNCHANGED freeing
         ELSE /\ results' = [results EXCEPT ![r] = [ResultsNulled(@) EXCEPT !.freed = @ + 1]]
              /\ freeing' = [r |-> r, hits_ptr |-> results[r].hits, count |-> results[r].count]

\* The allocations fc_free_results releases: the array, and the path and
\* name of its first count elements.
Released(hits_ptr, count) ==
  LET arr == heap[hits_ptr].arr
  IN { hits_ptr } \cup
     { arr[k].path : k \in { j \in DOMAIN arr : j <= count /\ arr[j].path # NullPtr } } \cup
     { arr[k].name : k \in { j \in DOMAIN arr : j <= count /\ arr[j].name # NullPtr } }

\* fc_free_results, lines 211-228: Box::from_raw and CString::from_raw.
FcFreeRelease ==
  /\ freeing # NoFree
  /\ heap' = [a \in DOMAIN heap |->
                IF a \in Released(freeing.hits_ptr, freeing.count)
                  THEN [heap[a] EXCEPT !.live = FALSE, !.frees = @ + 1]
                  ELSE heap[a]]
  /\ freeing' = NoFree
  /\ UNCHANGED <<index_vars, results, ffi_call>>

\* should_reindex(meta) (its code is not in src/): Ok(true), Ok(false) or Err.
should_reindex == { "true", "false", "err" }

\* The FCFileMeta pointers the C callers pass: None is the null pointer.
FCFileMetaOf(meta) ==
  [path |-> Some(meta.path), name |-> Some(meta.name),
   ext |-> IF meta.ext = None THEN None ELSE meta.ext,
   mtime |-> meta.modified_at, size |-> meta.size, inode |-> meta.inode, dev |-> meta.dev]

FCFileMetas ==
  { None,
    Some(FCFileMetaOf(MetaA)),
    Some([FCFileMetaOf(MetaA) EXCEPT !.path = None]),
    Some([FCFileMetaOf(MetaA) EXCEPT !.name = None]),
    Some([FCFileMetaOf(MetaA) EXCEPT !.ext = Some("")]),
    Some(FCFileMetaOf(MetaNoInode)) }

\* file_meta_from_ffi
file_meta_from_ffi(meta) ==
  IF meta = None \/ to_string(meta[1].path) = None \/ to_string(meta[1].name) = None
    THEN None
    ELSE Some([path |-> to_string(meta[1].path)[1],
               name |-> to_string(meta[1].name)[1],
               ext |-> IF to_string(meta[1].ext) = None \/ to_string(meta[1].ext) = Some("")
                         THEN None ELSE to_string(meta[1].ext),
               modified_at |-> meta[1].mtime, size |-> meta[1].size,
               inode |-> meta[1].inode, dev |-> meta[1].dev])

\* fc_should_reindex on what should_reindex answers.
fc_should_reindex(meta, answer) ==
  IF file_meta_from_ffi(meta) = None THEN FALSE
  ELSE CASE answer = "true" -> TRUE
         [] answer = "false" -> FALSE
         [] OTHER -> TRUE

\* fc_should_reindex(meta)
FcShouldReindex(meta, answer) ==
  /\ FfiCanCall
  /\ ffi_call' = [fn |-> "fc_should_reindex", meta |-> meta, answer |-> answer,
                  returned |-> fc_should_reindex(meta, answer)]
  /\ UNCHANGED <<index_vars, heap, results, freeing>>

\* A C caller on an opened index, or on none.
FfiInit ==
  /\ \/ \E docs \in Snapshots : OpenedOn(docs)
     \/ /\ INDEX_STATE = NoHandle
        /\ INDEX_SETTINGS = IndexSettings_default
        /\ handles = <<>>
        /\ disk = [d \in Dirs |-> <<>>]
        /\ th = [t \in Threads |-> Idle]
        /\ ret = NoReturn
        /\ calls = 0
        /\ faults = 0
  /\ heap = <<>>
  /\ results = <<>>
  /\ freeing = NoFree
  /\ ffi_call = NoFfiCall

FfiNext ==
  \/ \E query \in { None } \cup { Some(fcq) : fcq \in FCQueries } : FcSearch(query)
  \/ \E count \in { -1, 3 } : CallerResults(count)
  \/ \E r \in { NullPtr } \cup DOMAIN results : FcFreeGuard(r)
  \/ FcFreeRelease
  \/ \E meta \in FCFileMetas, answer \in should_reindex : FcShouldReindex(meta, answer)

FfiSpec == FfiInit /\ [][FfiNext]_vars

\* ------------------------------------------------------------- adding
\* ------------------------------------------------------------- to one index
\* Calls made on the one index.
MaxAddCalls == 3

\* The (meta, content_opt, force_reindex) arguments of the Rust callers.
RustAddInputs ==
  { <<MetaA, Some("hello world"), FALSE>>,
    <<MetaA, Some(""), TRUE>>,
    <<MetaTouched, None, FALSE>>,
    <<MetaRenamed, Some("hello world"), FALSE>>,
    <<MetaNoInode, None, FALSE>>,
    <<MetaNoInodeA, Some(""), FALSE>>,
    <<MetaInode12, None, FALSE>>,
    <<MetaDev11, None, FALSE>>,
    <<MetaDevOnly, None, FALSE>>,
    <<DefaultMeta, None, FALSE>> }

\* The (meta, content) pointers the C callers pass to fc_add_or_update.
FfiAddCalls ==
  { <<Some([FCFileMetaOf(MetaA) EXCEPT !.ext = Some("")]), Some("hello world")>>,
    <<Some([FCFileMetaOf(MetaNoInode) EXCEPT !.path = Some(""), !.name = Some("")]), None>>,
    <<Some([FCFileMetaOf(MetaA) EXCEPT !.path = None]), None>>,
    <<None, None>> }

\* An fc_add_or_update that forces the reindex.
FcAddForced(meta, content) ==
  IF file_meta_from_ffi(meta) = None THEN None
  ELSE Some(<<file_meta_from_ffi(meta)[1], to_string(content), TRUE>>)

\* fc_add_or_update, lines 64-70: the add_or_update_file call it makes, None
\* when it returns false without one.
fc_add_or_update_call(meta, content) ==
  IF file_meta_from_ffi(meta) = None THEN None
  ELSE Some(<<file_meta_from_ffi(meta)[1], to_string(content), FALSE>>)

\* The add_or_update_file calls reaching the index from either side.
IndexedAddInputs ==
  RustAddInputs \cup
  { fc_add_or_update_call(c[1], c[2])[1] :
      c \in { x \in FfiAddCalls : fc_add_or_update_call(x[1], x[2]) # None } }

\* The index directory as the process finds it: empty, or holding a.txt
\* from an earlier run.
AddInit ==
  /\ \E docs \in { <<>>, <<BuildDocument(MetaA, Some("hello world"), 1)>> } : OpenedOn(docs)
  /\ heap = <<>>
  /\ results = <<>>
  /\ freeing = NoFree
  /\ ffi_call = NoFfiCall

\* Callers adding to and committing the one index.
AddNext ==
  \/ \E t \in Threads, input \in IndexedAddInputs :
       calls < MaxAddCalls /\ AddHandle(t, input[1], input[2], input[3])
  \/ \E t \in Threads : AddFindExisting(t) \/ AddDeleteTerm(t) \/ AddDocument(t)
  \/ \E t \in Threads : calls < MaxAddCalls /\ CommitHandle(t)
  \/ \E t \in Threads : CommitWriter(t) \/ CommitReload(t)
  \/ \E h \in DOMAIN handles : ReaderWatcher(h)

AddSpec == AddInit /\ [][AddNext]_vars

\* ------------------------------------------------------------- C ABI:
\* ------------------------------------------------------------- adding
\* fc_add_or_update calls made by the C caller.
MaxFfiAddCalls == 2

\* The FCFileMeta pointers and the content pointers of the C caller.
FcAddMetas ==
  { None,
    Some(FCFileMetaOf(MetaA)),
    Some([FCFileMetaOf(MetaA) EXCEPT !.path = None]),
    Some([FCFileMetaOf(MetaA) EXCEPT !.name = None]),
    Some([FCFileMetaOf(MetaA) EXCEPT !.ext = Some("")]),
    Some([FCFileMetaOf(MetaTouched) EXCEPT !.ext = None]),
    Some(FCFileMetaOf(MetaNoInode)) }
FcAddContents == { None, Some(""), Some("hello world") }

\* The C caller is back from its last fc_add_or_update.
FcAddIdle == IF ffi_call.fn = "fc_add_or_update" THEN ffi_call.returned # None ELSE TRUE

\* fc_add_or_update, lines 63-70: false on an unreadable meta, otherwise
\* into add_or_update_file, and out of it at once when no index is open.
FcAddOrUpdate(t, meta, content) ==
  /\ FcAddIdle
  /\ calls < MaxFfiAddCalls
  /\ UNCHANGED <<INDEX_SETTINGS, heap, results, freeing>>
  /\ LET call == fc_add_or_update_call(meta, content)
     IN IF call = None
          THEN /\ CanCall(t)
               /\ ffi_call' = [fn |-> "fc_add_or_update", meta |-> meta, content |-> content,
                               returned |-> Some(FALSE)]
               /\ calls' = calls + 1
               /\ UNCHANGED <<INDEX_STATE, handles, disk, th, ret, faults>>
          ELSE /\ add_or_update_file_begin(t, call[1][1], call[1][2], call[1][3])
               /\ ffi_call' = [fn |-> "fc_add_or_update", meta |-> meta, content |-> content,
                               returned |-> IF th'[t].pc = "idle"
                                              THEN Some(fc_add_or_update(ret')) ELSE None]

\* fc_add_or_update, lines 70-76: the match on what add_or_update_file
\* returned.
FcAddReturn(t) ==
  /\ ~FcAddIdle
  /\ th[t].pc = "idle"
  /\ ret.op = "add" /\ ret.t = t
  /\ ffi_call' = [ffi_call EXCEPT !.returned = Some(fc_add_or_update(ret))]
  /\ UNCHANGED <<index_vars, heap, results, freeing>>

FfiAddNext ==
  \/ \E meta \in FcAddMetas, content \in FcAddContents : FcAddOrUpdate("t1", meta, content)
  \/ AddFindExisting("t1")
  \/ AddDeleteTerm("t1")
  \/ AddDocument("t1")
  \/ FcAddReturn("t1")

\* The C caller adding to the one index.
FfiAddSpec == AddInit /\ [][FfiAddNext]_vars

\* ------------------------------------------------------------- plain text
\* Files are sequences of bytes.  The bytes of the model: NUL, the bytes on
\* both sides of the two control ranges, the letter x and a byte that is no
\* UTF-8.
MaxLeading == 2
MaxLetters == 10
LeadingBytes == { 8, 9, 13, 14, 31, 32 }
Letter == 120
REPLACEMENT_CHARACTER == 65533

\* n times the byte b.
Rep(b, n) == [k \in 1..n |-> b]

\* The files read: some leading bytes, letters, and a last byte or none.
PlainFiles ==
  { Rep(b, k) \o Rep(Letter, p) \o tail :
      b \in LeadingBytes, k \in 0..MaxLeading, p \in 0..MaxLetters,
      tail \in { <<>>, <<0>>, <<255>> } }

\* The size_limit and sniff_bytes arguments.
SizeLimits == { 0, 5, 10, 12, 13 }
SniffBytes == { 0, 1, 8, 10, 11, 4096 }

min(a, b) == IF a <= b THEN a ELSE b

\* A heuristic that only looks for NUL bytes.
LooksBinaryNulOnly(head) == \E k \in DOMAIN head : head[k] = 0

\* looks_binary: a NUL byte, or more than a tenth of control bytes.
looks_binary(head) ==
  IF head = <<>> THEN FALSE
  ELSE IF \E k \in DOMAIN head : head[k] = 0 THEN TRUE
  ELSE LET non_printable ==
             Cardinality({ k \in DOMAIN head : head[k] < 9 \/ (head[k] > 13 /\ head[k] < 32) })
       IN non_printable * 10 > Len(head)

\* String::from_utf8 with the from_utf8_lossy fallback, lines 98-104, as code
\* points: a byte that is no UTF-8 becomes the replacement character.
from_utf8_lossy(bytes) ==
  [k \in DOMAIN bytes |-> IF bytes[k] >= 128 THEN REPLACEMENT_CHARACTER ELSE bytes[k]]

PlainTextExtraction(content, bytes_read, was_binary) ==
  [content |-> content, bytes_read |-> bytes_read, was_binary |-> was_binary]

\* read_plain_text on a file that is not written to meanwhile and whose
\* reads are not cut short.
read_plain_text(file, size_limit, sniff_bytes) ==
  IF Len(file) > size_limit THEN PlainTextExtraction(None, 0, FALSE)
  ELSE LET max_bytes == min(Len(file), size_limit)
           sniffed == sniff_bytes > 0 /\ max_bytes > 0
           head == IF sniffed THEN SubSeq(file, 1, min(sniff_bytes, max_bytes)) ELSE <<>>
           buffer == head \o SubSeq(file, Len(head) + 1, max_bytes)
       IN IF sniffed /\ head = <<>> THEN PlainTextExtraction(Some(<<>>), 0, FALSE)
          ELSE IF sniffed /\ looks_binary(head) THEN PlainTextExtraction(None, Len(head), TRUE)
          ELSE IF Len(buffer) = 0 THEN PlainTextExtraction(Some(<<>>), 0, FALSE)
          ELSE PlainTextExtraction(Some(from_utf8_lossy(buffer)), Len(buffer), FALSE)

\* read_plain_text called on a file, once in a behaviour.
ReadPlainText(file, size_limit, sniff_bytes) ==
  /\ ret = NoReturn
  /\ ret' = [op |-> "read_plain_text", t |-> NoThread, ok |-> TRUE, val |-> "", err |-> <<>>,
             hits |-> <<>>, snap |-> <<>>, call |-> Idle,
             file |-> file, size_limit |-> size_limit, sniff_bytes |-> sniff_bytes,
             extraction |-> read_plain_text(file, size_limit, sniff_bytes)]
  /\ UNCHANGED <<INDEX_STATE, INDEX_SETTINGS, handles, disk, th, calls, faults, ffi_vars>>

ExtractNext ==
  \E file \in PlainFiles, size_limit \in SizeLimits, sniff_bytes \in SniffBytes :
    ReadPlainText(file, size_limit, sniff_bytes)

ExtractSpec == Init /\ [][ExtractNext]_vars

\* ------------------------------------------------------------- settings
\* The IndexSettings the callers pass to configure.
SettingsInputs ==
  { IndexSettings(2, 1024 * 1024), IndexSettings(0, 64 * 1024 * 1024), IndexSettings_default }

\* Callers configuring, opening and closing the index.
ConfigNext ==
  \E t \in Threads :
    \/ \E settings \in SettingsInputs : configure(t, settings)
    \/ init_index(t)
    \/ close(t)

ConfigSpec == Init /\ [][ConfigNext]_vars

\* ------------------------------------------------------------- locks
\* The calls of the indexer and of search, step by step through the RwLock
\* of INDEX_STATE and the Mutex of the writer.
MaxLockCalls == 3

\* The arguments of the calls.
LockAddInputs == { <<MetaA, None, FALSE>>, <<MetaA, None, TRUE>> }
LockQueries == { [DefaultQuery EXCEPT !.term = "a"] }

\* Where a call is about to call index_handle(), and where it is about to
\* write the slot.
ReadStages == { "add_handle", "commit_handle", "search_index", "search_reader", "search_fields" }
WriteStages == { "close_slot", "init_slot" }

\* The threads holding a read guard, and a write guard, on INDEX_STATE.
SlotReaders == { t \in Threads : th[t].slot = "read" }
SlotWriters == { t \in Threads : th[t].slot = "write" }

\* An index_handle() whose read guard lives on in the caller.
SlotKeptAfterClone == "read"

\* index_handle(), lines 215-219: the read guard is a temporary of the
\* expression and is dropped when the function returns the clone.
slot_after_clone == "none"

\* A call is made: add_or_update_file, commit, search, close.
LockCall(t, pc, input, query) ==
  /\ UNCHANGED <<INDEX_SETTINGS, ffi_vars>>
  /\ CanCall(t)
  /\ calls < MaxLockCalls
  /\ calls' = calls + 1
  /\ th' = [th EXCEPT ![t] =
        [Idle EXCEPT !.pc = pc, !.meta = input[1], !.content = input[2], !.force = input[3],
                     !.query = query]]
  /\ ret' = NoReturn
  /\ UNCHANGED <<INDEX_STATE, handles, disk, faults>>

\* init_index, lines 93-136: everything before the slot is written.  The
\* writer is created, or not, before the slot lock is touched.
LockInitCall(t, dir) ==
  /\ UNCHANGED <<INDEX_SETTINGS, ffi_vars>>
  /\ CanCall(t)
  /\ calls < MaxLockCalls
  /\ calls' = calls + 1
  /\ UNCHANGED <<INDEX_STATE, disk, faults>>
  /\ IF WriterLockBusy(dir)
       THEN /\ ret' = Returned(t, Err("init", <<"failed to create tantivy writer">>, Idle))
            /\ UNCHANGED <<handles, th>>
       ELSE /\ handles' = Append(handles, NewHandle(dir))
            /\ th' = [th EXCEPT ![t] = [Idle EXCEPT !.pc = "init_slot", !.h = Len(handles) + 1]]
            /\ ret' = NoReturn

\* INDEX_STATE.read(): granted when no thread holds the write guard.
index_handle_read(t) ==
  /\ UNCHANGED <<INDEX_SETTINGS, ffi_vars>>
  /\ th[t].pc \in ReadStages
  /\ th[t].slot = "none"
  /\ SlotWriters = {}
  /\ th' = [th EXCEPT ![t].slot = "read"]
  /\ UNCHANGED <<INDEX_STATE, handles, disk, ret, calls, faults>>

\* index_handle(): .clone() under the read guard, the guard dropped, and
\* the caller going on with the handle, or returning the error.
index_handle_clone(t) ==
  /\ UNCHANGED <<INDEX_SETTINGS, ffi_vars>>
  /\ th[t].pc \in ReadStages
  /\ th[t].slot = "read"
  /\ UNCHANGED <<INDEX_STATE, disk, calls, faults>>
  /\ LET h == index_handle
         me == [th[t] EXCEPT !.slot = slot_after_clone]
         op == CASE th[t].pc = "add_handle" -> "add"
                 [] th[t].pc = "commit_handle" -> "commit"
                 [] OTHER -> "search"
     IN IF h = NoHandle
          THEN Return(t, handles, Err(op, <<"index not initialized">>, th[t]))
          ELSE CASE th[t].pc = "add_handle" ->
                      /\ th' = [th EXCEPT ![t] =
                            [me EXCEPT !.pc = add_entry(me.force), !.h = h,
                                       !.prev = find_existing(handles[h].ideal, identity(me.meta))]]
                      /\ UNCHANGED <<handles, ret>>
                 [] th[t].pc = "commit_handle" ->
                      /\ th' = [th EXCEPT ![t] =
                            [me EXCEPT !.pc = "commit_lock", !.h = h, !.nh = h,
                                       !.need = StampsOf(handles[h].ideal)]]
                      /\ UNCHANGED <<handles, ret>>
                 [] th[t].pc = "search_index" ->
                      /\ th' = [th EXCEPT ![t] = [me EXCEPT !.pc = "search_reader"]]
                      /\ UNCHANGED <<handles, ret>>
                 [] th[t].pc = "search_reader" ->
                      /\ th' = [th EXCEPT ![t] = [me EXCEPT !.pc = "search_fields", !.r = h]]
                      /\ UNCHANGED <<handles, ret>>
                 [] th[t].pc = "search_fields" ->
                      Return(t, handles, search_outcome(searcher(th[t].r), th[t].query, th[t]))

\* INDEX_STATE.write(): granted when no thread holds a guard.
slot_write(t) ==
  /\ UNCHANGED <<INDEX_SETTINGS, ffi_vars>>
  /\ th[t].pc \in WriteStages
  /\ th[t].slot = "none"
  /\ SlotReaders = {} /\ SlotWriters = {}
  /\ th' = [th EXCEPT ![t].slot = "write"]
  /\ UNCHANGED <<INDEX_STATE, handles, disk, ret, calls, faults>>

\* *guard = None in close, *guard = Some(handle) in init_index; the guard
\* is dropped as the function returns.
slot_store(t) ==
  /\ UNCHANGED <<INDEX_SETTINGS, ffi_vars>>
  /\ th[t].pc \in WriteStages
  /\ th[t].slot = "write"
  /\ INDEX_STATE' = IF th[t].pc = "close_slot" THEN NoHandle ELSE th[t].h
  /\ th' = [th EXCEPT ![t] = Idle]
  /\ handles' = Release(handles, INDEX_STATE', th')
  /\ ret' = Returned(t, Ok(IF th[t].pc = "close_slot" THEN "close" ELSE "init", "", Idle))
  /\ UNCHANGED <<disk, calls, faults>>

\* The steps a thread takes inside a call.
LockThreadStep(t) ==
  \/ index_handle_read(t)
  \/ index_handle_clone(t)
  \/ slot_write(t)
  \/ slot_store(t)
  \/ AddFindExisting(t)
  \/ AddDeleteTerm(t)
  \/ AddDocument(t)
  \/ CommitWriter(t)
  \/ CommitReload(t)

LockInit ==
  /\ OpenedOn(<<>>)
  /\ heap = <<>>
  /\ results = <<>>
  /\ freeing = NoFree
  /\ ffi_call = NoFfiCall

LockNext ==
  \/ \E t \in Threads, input \in LockAddInputs : LockCall(t, "add_handle", input, DefaultQuery)
  \/ \E t \in Threads : LockCall(t, "commit_handle", <<DefaultMeta, None, FALSE>>, DefaultQuery)
  \/ \E t \in Threads, query \in LockQueries :
       LockCall(t, "search_index", <<DefaultMeta, None, FALSE>>, query)
  \/ \E t \in Threads : LockCall(t, "close_slot", <<DefaultMeta, None, FALSE>>, DefaultQuery)
  \/ \E t \in Threads, dir \in Dirs : LockInitCall(t, dir)
  \/ \E t \in Threads : LockThreadStep(t)
  \/ \E h \in DOMAIN handles : ReaderWatcher(h)

\* Every thread inside a call is scheduled again.
LockSpec ==
  LockInit /\ [][LockNext]_vars /\ \A t \in Threads : WF_vars(LockThreadStep(t))

\* ------------------------------------------------------------- search
\* ------------------------------------------------------------- properties
\* The terms of the model that are empty after trimming.
BlankTerms == { "", " " }

\* A search ran its query and returned hits.
SearchReturnedHits ==
  ret.op = "search" /\ ret.ok /\ ret.call.query.term \notin BlankTerms

\* C14: the number of hits search returns is at most max(limit, 1).
C14_LimitRespected ==
  (ret.op = "search" /\ ret.ok)
    => Len(ret.hits) <= (IF ret.call.query.limit > 1 THEN ret.call.query.limit ELSE 1)

\* A search with limit 0 on an index of three matching documents returned
\* one hit.
C14_LimitZeroOneHit ==
  /\ SearchReturnedHits
  /\ ret.call.query.limit = 0
  /\ ret.call.query.path_glob = None
  /\ Len(ret.snap) = 3
  /\ \A k \in DOMAIN ret.snap : ret.snap[k].content # None
  /\ ret.call.query.term = "hello" /\ ret.call.query.search_in = "Content"
  /\ Len(ret.hits) = 1

\* The paths of the model a pattern matches as a glob, letter case ignored.
GlobMatches(pattern, path) ==
  CASE pattern \in { "a*", "A*" } -> path = "a.txt"
    [] OTHER -> FALSE

\* The pattern without the blanks around it.
Stripped(pattern) == IF pattern = " a* " THEN "a*" ELSE pattern

\* C15: with a non-blank path_glob = P every hit's path is the stored path
\* of a document of the snapshot and matches P, the blanks around the
\* pattern not counting, whatever the case of the letters.
C15_HitsMatchPattern ==
  (/\ SearchReturnedHits
   /\ ret.call.query.path_glob # None
   /\ ret.call.query.path_glob[1] \notin BlankTerms)
    => \A k \in DOMAIN ret.hits :
         /\ GlobMatches(Stripped(ret.call.query.path_glob[1]), ret.hits[k].path)
         /\ \E j \in DOMAIN ret.snap : ret.snap[j].path = ret.hits[k].path

\* A glob in capitals kept a.txt and dropped the other matching documents.
C15_GlobFilteredHits ==
  /\ SearchReturnedHits
  /\ ret.call.query.path_glob = Some("A*")
  /\ ret.call.query.term = "hello" /\ ret.call.query.search_in = "Both"
  /\ ret.call.query.limit = 2
  /\ Len(ret.snap) = 2
  /\ \A k \in DOMAIN ret.snap : ret.snap[k].content # None
  /\ Len(ret.hits) = 1
  /\ ret.hits[1].path = "a.txt"

\* The query with no glob at all.
WithoutGlob(query) == [query EXCEPT !.path_glob = None]

\* C16 as stated: a blank path_glob filters nothing, and an unparseable
\* path_glob makes search return an error.
C16_GlobSemantics ==
  /\ (/\ ret.op = "search" /\ ret.ok
      /\ ret.call.query.path_glob # None
      /\ ret.call.query.path_glob[1] \in BlankTerms)
       => ret.hits = RunQuery(ret.snap, WithoutGlob(ret.call.query))
  /\ (/\ ret.op = "search"
      /\ ret.call.query.path_glob = Some("["))
       => ~ret.ok

\* C16 amended: a blank path_glob filters nothing; an unparseable path_glob
\* makes a search of a non-blank term return an error, while a search of a
\* blank term returns Ok with no hits whatever the glob.
C16_GlobSemanticsNonBlankTerm ==
  /\ (/\ ret.op = "search" /\ ret.ok
      /\ ret.call.query.path_glob # None
      /\ ret.call.query.path_glob[1] \in BlankTerms)
       => ret.hits = RunQuery(ret.snap, WithoutGlob(ret.call.query))
  /\ (/\ ret.op = "search"
      /\ ret.call.query.path_glob = Some("["))
       => IF ret.call.query.term \in BlankTerms
            THEN ret.ok /\ ret.hits = <<>>
            ELSE ~ret.ok

\* A search of a term with an unparseable glob failed on the glob.
C16_InvalidGlobError ==
  /\ ret.op = "search" /\ ~ret.ok
  /\ ret.err = <<"invalid glob pattern">>
  /\ ret.call.query.path_glob = Some("[")

\* modified_at, an absent one counting as 0.
MtimeOr0(hit) == IF hit.modified_at = None THEN 0 ELSE hit.modified_at[1]

\* C17: in the hit list search returns, from each hit to the next the score
\* does not increase, and for equal scores modified_at does not increase.
C17_Ranked ==
  (ret.op = "search" /\ ret.ok)
    => \A k \in DOMAIN ret.hits :
         k < Len(ret.hits)
           => /\ ret.hits[k].score >= ret.hits[k + 1].score
              /\ ret.hits[k].score = ret.hits[k + 1].score
                   => MtimeOr0(ret.hits[k]) >= MtimeOr0(ret.hits[k + 1])

\* Two hits of equal score came back newest first, against the order of
\* their documents in the index.
C17_TieBrokenByMtime ==
  /\ SearchReturnedHits
  /\ Len(ret.hits) = 2
  /\ ret.hits[1].score = ret.hits[2].score
  /\ MtimeOr0(ret.hits[1]) > MtimeOr0(ret.hits[2])
  /\ ret.snap[1].path = ret.hits[2].path

\* C18: a search whose term is empty after trimming returns Ok with an
\* empty hit list, whatever the state of the slot and the glob.
C18_BlankTermEmpty ==
  (ret.op = "search" /\ ret.call.query.term \in BlankTerms)
    => ret.ok /\ ret.hits = <<>> /\ fc_search(ret) = [hits |-> <<>>, count |-> 0]

\* A blank term searched on a closed index.
C18_BlankTermOnEmptySlot ==
  /\ ret.op = "search" /\ ret.ok
  /\ ret.call.query.term = " "
  /\ INDEX_STATE = NoHandle

\* ------------------------------------------------------------- C ABI
\* ------------------------------------------------------------- properties
\* Every allocation is live and never freed, or freed once.
FreedAtMostOnce(hp) ==
  \A a \in DOMAIN hp : hp[a].frees <= 1 /\ (hp[a].live <=> hp[a].frees = 0)

\* The allocations a struct was returned with: its array and the strings of
\* the array's elements.
MadeWith(hp, r) ==
  IF r.made = NullPtr THEN {}
  ELSE { r.made } \cup { hp[r.made].arr[k].path : k \in DOMAIN hp[r.made].arr }
                  \cup { hp[r.made].arr[k].name : k \in DOMAIN hp[r.made].arr }

\* What the memory looks like around fc_free_results: the struct is nulled
\* before anything is released; a struct not freed yet has all it was made
\* with live; a struct freed has all of it freed once.
FreeDiscipline(hp, rs, fr) ==
  /\ FreedAtMostOnce(hp)
  /\ fr # NoFree => /\ rs[fr.r].hits = NullPtr /\ rs[fr.r].count = 0
                    /\ \A a \in MadeWith(hp, rs[fr.r]) : hp[a].live
  /\ \A r \in DOMAIN rs :
       /\ rs[r].freed = 0 => \A a \in MadeWith(hp, rs[r]) : hp[a].live
       /\ (rs[r].freed > 0 /\ fr.r # r)
            => /\ rs[r].hits = NullPtr /\ rs[r].count = 0
               /\ \A a \in MadeWith(hp, rs[r]) : hp[a].frees = 1

\* C11: fc_free_results frees nothing on a null pointer and on a struct
\* with null hits or count <= 0; after a call on a struct hits is null and
\* count is 0, before anything is released; a second call on the struct
\* releases nothing, and every array and string is freed exactly once.
C11_FreeExactlyOnce ==
  /\ FreeDiscipline(heap, results, freeing)
  /\ [][/\ FreeDiscipline(heap', results', freeing')
        /\ (freeing = NoFree /\ ffi_call'.fn = "fc_free_results" /\ <<results, freeing, ffi_call>>' # <<results, freeing, ffi_call>>)
             => /\ heap' = heap
                /\ ffi_call'.r = NullPtr => (results' = results /\ freeing' = NoFree)
                /\ ffi_call'.r # NullPtr
                     => /\ results'[ffi_call'.r].hits = NullPtr
                        /\ results'[ffi_call'.r].count = 0
                        /\ (results[ffi_call'.r].hits = NullPtr \/ results[ffi_call'.r].count <= 0)
                             => freeing' = NoFree]_vars

\* A struct returned with hits was freed twice: its memory was freed once.
C11_FreedTwice ==
  \E r \in DOMAIN results :
    /\ results[r].made # NullPtr
    /\ results[r].freed = 2
    /\ freeing = NoFree
    /\ \A a \in MadeWith(heap, results[r]) : heap[a].frees = 1

\* The array a struct points to, its strings read back.
ArrayOf(hp, r) ==
  IF r.hits = NullPtr THEN <<>>
  ELSE [k \in DOMAIN hp[r.hits].arr |->
          [hp[r.hits].arr[k] EXCEPT !.path = hp[hp[r.hits].arr[k].path].str,
                                    !.name = hp[hp[r.hits].arr[k].name].str]]

\* The hits search handed to fc_search, and those with no NUL byte in path
\* or name.
HitsOf(result) == IF result.ok THEN result.hits ELSE <<>>
Surviving(hits) ==
  SelectSeq(hits, LAMBDA x : x.path \notin InteriorNul /\ x.name \notin InteriorNul)

\* C12: the array fc_search returns holds no hit with a NUL byte in path or
\* name; the other hits are there in their order, count is their number, and
\* every string built for a dropped hit has been released.
C12_InteriorNulDropped ==
  ffi_call.fn = "fc_search"
    => LET arr == ArrayOf(heap, ffi_call.returned)
           kept == Surviving(HitsOf(ffi_call.result))
       IN /\ Len(arr) = Len(kept)
          /\ ffi_call.returned.count = Len(kept)
          /\ \A k \in DOMAIN arr :
               /\ arr[k].path = kept[k].path /\ arr[k].name = kept[k].name
               /\ arr[k].score = kept[k].score
               /\ arr[k].path \notin InteriorNul /\ arr[k].name \notin InteriorNul
          /\ \A a \in DOMAIN heap :
               (a > ffi_call.before /\ heap[a].live) => a \in MadeWith(heap, ffi_call.returned)
          /\ \A a \in DOMAIN heap :
               (a > ffi_call.before /\ a \notin MadeWith(heap, ffi_call.returned))
                 => heap[a].frees = 1

\* fc_search dropped a hit with a NUL byte in its name, released the path
\* string it had built for it, and returned the other hit.
C12_HitDropped ==
  /\ ffi_call.fn = "fc_search"
  /\ Len(HitsOf(ffi_call.result)) = 2
  /\ ffi_call.returned.count = 1
  /\ \E a \in DOMAIN heap :
       a > ffi_call.before /\ ~heap[a].live /\ heap[a].str = "c.txt"

\* C13: the i-th element of the array carries path, name, mtime (0 if
\* absent), size (0 if absent) and score of the i-th surviving hit; count is
\* the length of the array; hits is null exactly when count is 0, which is
\* the case for a null query, a failed search and a search with no hits; a
\* search for a word of the content of the one file of the index returns that
\* file's path and name.
C13_MarshalledFaithfully ==
  ffi_call.fn = "fc_search"
    => LET arr == ArrayOf(heap, ffi_call.returned)
           kept == Surviving(HitsOf(ffi_call.result))
           docs == IF INDEX_STATE = NoHandle THEN <<>> ELSE handles[INDEX_STATE].reader
       IN /\ ffi_call.returned.count = Len(arr)
          /\ ffi_call.returned.hits = NullPtr <=> ffi_call.returned.count = 0
          /\ (ffi_call.query = None \/ ~ffi_call.result.ok \/ ffi_call.result.hits = <<>>)
               => ffi_call.returned.hits = NullPtr
          /\ Len(arr) = Len(kept)
          /\ \A k \in DOMAIN arr :
               arr[k] = [path |-> kept[k].path, name |-> kept[k].name,
                         mtime |-> MtimeOr0(kept[k]),
                         size |-> IF kept[k].size = None THEN 0 ELSE kept[k].size[1],
                         score |-> kept[k].score]
          /\ (/\ ffi_call.query # None
              /\ ffi_call.result.ok
              /\ ffi_call.query[1].q = Some("hello")
              /\ ffi_call.query[1].scope # 0
              /\ Len(docs) = 1
              /\ docs[1].content = Some("hello world")
              /\ docs[1].name \notin InteriorNul)
               => \E k \in DOMAIN arr : arr[k].path = docs[1].path /\ arr[k].name = docs[1].name

\* An index of one file, searched for a word of its content through the C
\* ABI: one hit came back.
C13_OneFileFound ==
  /\ ffi_call.fn = "fc_search"
  /\ ffi_call.query # None
  /\ ffi_call.query[1].q = Some("hello")
  /\ Len(handles[INDEX_STATE].reader) = 1
  /\ ffi_call.returned.count = 1
  /\ ArrayOf(heap, ffi_call.returned)[1].name = "a.txt"

\* C19: whenever fc_should_reindex ends in an error (should_reindex fails,
\* or the meta cannot be read) it returns true.
C19_FailOpen ==
  (/\ ffi_call.fn = "fc_should_reindex"
   /\ \/ ffi_call.answer = "err"
      \/ ffi_call.meta = None
      \/ ffi_call.meta[1].path = None
      \/ ffi_call.meta[1].name = None)
    => ffi_call.returned = TRUE

\* C20: fc_search passes scope 0 on as Name, 1 as Content, 2 and every other
\* integer as Both, a limit <= 0 as 50 and a positive limit unchanged.
C20_QueryDecoded ==
  (ffi_call.fn = "fc_search" /\ ffi_call.query # None)
    => LET fcq == ffi_call.query[1]
           query == ffi_call.result.call.query
       IN /\ fcq.scope = 0 => query.search_in = "Name"
          /\ fcq.scope = 1 => query.search_in = "Content"
          /\ fcq.scope = 2 => query.search_in = "Both"
          /\ fcq.scope \notin { 0, 1, 2 } => query.search_in = "Both"
          /\ fcq.limit <= 0 => query.limit = 50
          /\ fcq.limit > 0 => query.limit = fcq.limit

\* A query with scope 3 and limit 0 went to search as Both with limit 50.
C20_DefaultsApplied ==
  /\ ffi_call.fn = "fc_search" /\ ffi_call.query # None
  /\ ffi_call.query[1].scope = 3 /\ ffi_call.query[1].limit = 0
  /\ ffi_call.result.call.query.search_in = "Both"
  /\ ffi_call.result.call.query.limit = 50

\* ------------------------------------------------------------- index
\* ------------------------------------------------------------- properties
\* The handles whose writer is alive.
LiveHandles == { h \in DOMAIN handles : ArcHeld(INDEX_STATE, th, h) }

\* The committed index of a handle's directory.
Committed(h) == disk[handles[h].dir]

\* (path, mtime, size) of a stored document and of a meta.
StoredTuple(d) == <<d.path, d.mtime, d.size>>
MetaTuple(meta) == <<meta.path, meta.modified_at, meta.size>>

\* C1: after any interleaving of add_or_update_file calls and commits, the
\* committed index and every reader snapshot hold at most one document per
\* identity; and when the adds of an identity all returned Ok, the commit
\* leaves exactly one document of that identity.
C1_OneDocumentPerIdentity ==
  /\ \A d \in Dirs, i \in Identities : Len(TermQuery(disk[d], i)) <= 1
  /\ \A h \in DOMAIN handles, i \in Identities : Len(TermQuery(handles[h].reader, i)) <= 1
  /\ \A h \in LiveHandles, i \in Identities :
       (TermQuery(handles[h].cideal, i) # <<>> /\ i \notin handles[h].cbroken)
         => Len(TermQuery(Committed(h), i)) = 1

\* Two adds of one identity were written by one handle and committed: the
\* committed index holds the second document only.
C1_TwoAddsOneDocument ==
  /\ ret.op = "commit" /\ ret.ok
  /\ Len(disk["d1"]) = 1
  /\ disk["d1"][1].op = 2
  /\ disk["d1"][1].identity = identity(MetaA)

\* C2: every add that returned Added or Updated before a commit started is
\* in the reader snapshot of every search issued after that commit returned
\* successfully, itself or a later document of its identity.
C2_VisibleAfterCommit ==
  (ret.op = "search" /\ ret.ok /\ trim(ret.call.query.term) # "")
    => \A i \in Identities :
         ret.call.need[i] > 0
           => \E k \in DOMAIN ret.snap :
                ret.snap[k].identity = i /\ ret.snap[k].op >= ret.call.need[i]

\* C3: every committed document is the one the last successful add of its
\* identity before the commit wrote (path, name, mtime, size and content
\* included), and it is the only one of its identity.
C3_LastAddWins ==
  \A h \in LiveHandles :
    \A k \in DOMAIN Committed(h) :
      /\ \E j \in DOMAIN handles[h].cideal : handles[h].cideal[j] = Committed(h)[k]
      /\ \A j \in DOMAIN Committed(h) :
           Committed(h)[j].identity = Committed(h)[k].identity => j = k

\* An add of MetaA then an add of MetaTouched, committed: the committed
\* document is the second one.
C3_SecondAddCommitted ==
  /\ ret.op = "commit" /\ ret.ok
  /\ disk["d1"] = <<BuildDocument(MetaTouched, None, 2)>>

\* C4: when the reader snapshot (the last reloaded commit) holds a document
\* of meta's identity with meta's (path, mtime, size), add_or_update_file
\* with force_reindex = false returns Skipped, and the step leaves the
\* writer, its mutex, its opstamp and the committed index as they were.
C4_SkippedNoWriterWork ==
  [][\A t \in Threads :
       (/\ th[t].pc = "add_find" /\ th'[t].pc # "add_find"
        /\ ~th[t].force
        /\ faults' = faults
        /\ LET docs == TermQuery(handles[th[t].h].reader, identity(th[t].meta))
           IN docs # <<>> /\ StoredTuple(docs[1]) = MetaTuple(th[t].meta))
       => /\ th'[t] = Idle
          /\ ret'.op = "add" /\ ret'.ok /\ ret'.val = "Skipped" /\ ret'.t = t
          /\ fc_add_or_update(ret')
          /\ disk' = disk
          /\ \A h \in DOMAIN handles' :
               ArcHeld(INDEX_STATE', th', h) => handles'[h] = handles[h]]_vars

\* An add returned Skipped for a committed document.
C4_SkippedReturned ==
  /\ ret.op = "add" /\ ret.val = "Skipped"
  /\ ret.call.existing # None
  /\ \E k \in DOMAIN disk["d1"] : StoredTuple(disk["d1"][k]) = MetaTuple(ret.call.meta)

\* C5 as stated: an add whose (path, mtime, size) differs from the one the
\* previous add of the same identity wrote returns Updated.
C5_SecondCallUpdated ==
  (/\ ret.op = "add" /\ ret.ok /\ ~ret.call.force
   /\ ret.call.prev # None
   /\ StoredTuple(ret.call.prev[1]) # MetaTuple(ret.call.meta))
    => ret.val = "Updated"

\* C5 amended: such an add returns Updated exactly when the reader snapshot
\* holds a document of the identity with another tuple, Added exactly when
\* the snapshot holds none, Skipped exactly when the snapshot's document has
\* the call's tuple; and a commit leaves, for an identity whose adds returned
\* Ok, exactly the document the last add that wrote built.
C5_UpdatedIffInSnapshot ==
  /\ (/\ ret.op = "add" /\ ret.ok /\ ~ret.call.force
      /\ ret.call.prev # None
      /\ StoredTuple(ret.call.prev[1]) # MetaTuple(ret.call.meta))
       => LET existing == ret.call.existing
              same == existing # None /\
                      <<existing[1].path, existing[1].mtime, existing[1].size>>
                         = MetaTuple(ret.call.meta)
          IN /\ ret.val = "Updated" <=> (existing # None /\ ~same)
             /\ ret.val = "Added" <=> existing = None
             /\ ret.val = "Skipped" <=> same
  /\ \A h \in LiveHandles, i \in Identities :
       i \notin handles[h].cbroken
         => TermQuery(Committed(h), i) = TermQuery(handles[h].cideal, i)

\* An add with a new tuple returned Updated.
C5_UpdatedReturned ==
  /\ ret.op = "add" /\ ret.ok /\ ret.val = "Updated"
  /\ ret.call.prev # None
  /\ StoredTuple(ret.call.prev[1]) # MetaTuple(ret.call.meta)

\* C6: the delete_term + add_document pair runs under the writer mutex, one
\* thread at a time, and no committed state holds an identity's old document
\* deleted without a replacement, or two documents of one identity.
C6_AtomicReplace ==
  /\ \A h \in DOMAIN handles :
       Cardinality({ t \in Threads : th[t].h = h /\ th[t].pc = "add_doc" }) <= 1
  /\ \A h \in DOMAIN handles, t \in Threads :
       (th[t].h = h /\ th[t].pc = "add_doc") => handles[h].lock = t
  /\ \A d \in Dirs, i \in Identities : Len(TermQuery(disk[d], i)) <= 1
  /\ \A h \in LiveHandles, i \in Identities :
       TermQuery(handles[h].cideal, i) # <<>> => TermQuery(Committed(h), i) # <<>>

\* The step of a call that finds the slot empty.
FailsNotInitialized ==
  /\ ~ret'.ok
  /\ ret'.err[1] = "index not initialized"
  /\ ret'.op \in { "add", "commit", "search" }
  /\ ret'.op = "add" => ~fc_add_or_update(ret')
  /\ ret'.op = "commit" => ~fc_commit_and_refresh(ret')
  /\ ret'.op = "search" => fc_search(ret') = [hits |-> <<>>, count |-> 0]

\* A search of a blank term returns before it asks for the handle.
BlankTermReturn == ret'.op = "search" /\ ret'.ok /\ trim(ret'.call.query.term) = ""

\* C7: a call of add_or_update_file, commit or search (of a non-blank
\* term) made while the slot is empty fails with "index not initialized",
\* its C wrapper returns false or an empty Results, and the slot, the
\* handles, the committed index and the other calls are left as they were;
\* a search that finds the slot emptied under it fails with that cause too.
C7_NotInitialized ==
  [][/\ (/\ INDEX_STATE = NoHandle
         /\ calls' = calls + 1
         /\ ret'.op \notin { "init", "close" }
         /\ ~BlankTermReturn)
        => /\ FailsNotInitialized
           /\ INDEX_STATE' = NoHandle
           /\ UNCHANGED <<handles, disk, th>>
     /\ \A t \in Threads :
          (/\ INDEX_STATE = NoHandle
           /\ th[t].pc \in { "search_reader", "search_fields" }
           /\ th'[t].pc # th[t].pc)
            => /\ ~ret'.ok /\ ret'.op = "search" /\ ret'.t = t
               /\ ret'.err[Len(ret'.err)] = "index not initialized"
               /\ fc_search(ret') = [hits |-> <<>>, count |-> 0]
               /\ INDEX_STATE' = NoHandle
               /\ disk' = disk]_vars

\* A call failed on a slot that close emptied, the committed index intact.
C7_FailedAfterClose ==
  /\ ret.op \in { "add", "commit", "search" }
  /\ ~ret.ok /\ ret.err[1] = "index not initialized"
  /\ INDEX_STATE = NoHandle
  /\ disk["d1"] # <<>>

\* C8: the slot is empty initially; every successful init_index leaves a
\* live handle in it; every close leaves it empty, changing nothing when it
\* was empty already; only a successful init_index fills an empty slot and
\* only close empties it, and until then calls made on the empty slot fail.
C8_HandleLifecycle ==
  /\ INDEX_STATE = NoHandle
  /\ [][/\ (calls' = calls + 1 /\ ret'.op = "init" /\ ret'.ok)
           => /\ INDEX_STATE' # NoHandle
              /\ INDEX_STATE' \in DOMAIN handles'
              /\ handles'[INDEX_STATE'].writer = disk[handles'[INDEX_STATE'].dir]
        /\ (calls' = calls + 1 /\ ret'.op = "close")
           => /\ INDEX_STATE' = NoHandle
              /\ ret'.ok
              /\ INDEX_STATE = NoHandle => UNCHANGED <<handles, disk, th>>
        /\ (INDEX_STATE = NoHandle /\ INDEX_STATE' # NoHandle)
           => (calls' = calls + 1 /\ ret'.op = "init" /\ ret'.ok)
        /\ (INDEX_STATE # NoHandle /\ INDEX_STATE' = NoHandle)
           => (calls' = calls + 1 /\ ret'.op = "close")
        /\ (/\ INDEX_STATE = NoHandle
            /\ calls' = calls + 1
            /\ ret'.op \notin { "init", "close" }
            /\ ~BlankTermReturn)
           => ~ret'.ok /\ INDEX_STATE' = NoHandle]_vars

\* close emptied a slot whose handle a call still holds.
C8_ClosedWhileInUse ==
  /\ ret.op = "close"
  /\ INDEX_STATE = NoHandle
  /\ \E t \in Threads : th[t].h # NoHandle

\* C9: after a failed add_or_update_file, the committed index is what the
\* calls that returned Ok alone would have committed.
C9_NoPartialState ==
  \A h \in LiveHandles : Committed(h) = handles[h].cideal

\* C10: a failing init_index leaves the slot, the handles and the committed
\* index exactly as they were.
C10_FailedInitKeepsSlot ==
  [][(calls' = calls + 1 /\ ret'.op = "init" /\ ~ret'.ok)
       => /\ INDEX_STATE' = INDEX_STATE
          /\ UNCHANGED <<handles, disk, th>>]_vars

\* init_index failed while a handle was installed, and the handle is still
\* there.
C10_FailedInitHandleKept ==
  /\ ret.op = "init" /\ ~ret.ok
  /\ INDEX_STATE # NoHandle
  /\ handles[INDEX_STATE].writer # <<>>

\* C26: configure changes nothing but the stored settings; the writer of a
\* handle keeps the thread count and heap size it was created with for as
\* long as the handle is installed; and a handle installed by init_index is
\* created with the settings stored when that init_index ran.
C26_ConfigureNextInit ==
  [][/\ (ret'.op = "configure" /\ calls' = calls + 1)
          => UNCHANGED <<INDEX_STATE, handles, disk, th>>
     /\ \A h \in DOMAIN handles :
          (INDEX_STATE = h /\ INDEX_STATE' = h) => handles'[h].created = handles[h].created
     /\ (ret'.op = "init" /\ ret'.ok /\ calls' = calls + 1)
          => handles'[INDEX_STATE'].created = writer_with_num_threads(INDEX_SETTINGS)]_vars

\* configure returned while a handle is installed whose writer was created
\* with other settings than those now stored.
C26_ConfiguredWhileLive ==
  /\ ret.op = "configure"
  /\ INDEX_STATE # NoHandle
  /\ handles[INDEX_STATE].created # writer_with_num_threads(INDEX_SETTINGS)

\* ------------------------------------------------------------- document
\* ------------------------------------------------------------- properties
\* Every document the index holds: committed, served by a reader, or staged
\* in a writer.
StoredDocs ==
  UNION { { disk[d][k] : k \in DOMAIN disk[d] } : d \in Dirs } \cup
  UNION { { handles[h].reader[k] : k \in DOMAIN handles[h].reader } : h \in DOMAIN handles } \cup
  UNION { { handles[h].writer[k] : k \in DOMAIN handles[h].writer } : h \in DOMAIN handles }

\* What the identity of a document may depend on: (dev, inode) when either
\* is non-zero, the path otherwise.
IdentityKey(d) ==
  IF d.inode # 0 \/ d.dev # 0
    THEN [dev |-> d.dev, inode |-> d.inode, path |-> ""]
    ELSE [dev |-> 0, inode |-> 0, path |-> d.path]

\* C21: the identity of every document is "<dev>:<inode>" when inode or dev
\* is non-zero and "path:<path>" when both are zero, and two documents have
\* the same identity exactly when they agree on (dev, inode), or have both
\* zero and agree on the path.
C21_IdentityFunction ==
  \A d \in StoredDocs :
    /\ d.identity = IF d.inode # 0 \/ d.dev # 0
                      THEN ToString(d.dev) \o ":" \o ToString(d.inode)
                      ELSE "path:" \o d.path
    /\ \A e \in StoredDocs : (d.identity = e.identity) <=> (IdentityKey(d) = IdentityKey(e))

\* A renamed file: the index holds it under both paths with one identity.
C21_RenamedSameIdentity ==
  \E d, e \in StoredDocs : d.path # e.path /\ d.name # e.name /\ d.inode # 0 /\ d.identity = e.identity

\* C22: every document the index holds has a non-empty path, a non-empty
\* name and a non-empty identity, and carries mtime and size.
C22_RequiredFieldsNonEmpty ==
  \A d \in StoredDocs :
    /\ d.path # "" /\ d.name # "" /\ d.identity # ""
    /\ d.mtime \in Int /\ d.size \in Nat

\* The step in which add_or_update_file of thread t writes its document to
\* the writer of a handle that stays installed.
Wrote(t) ==
  /\ th[t].pc = "add_doc"
  /\ ret'.op = "add" /\ ret'.ok /\ ret'.t = t
  /\ th[t].h \in DOMAIN handles'
  /\ handles'[th[t].h].writer # <<>>

\* The document that step wrote.
Written(t) == handles'[th[t].h].writer[Len(handles'[th[t].h].writer)]

\* C23: the document add_or_update_file writes has a content field exactly
\* when the supplied content is present and non-empty, and then holds that
\* content; it has an ext field exactly when meta.ext is present; every
\* other field is written from meta.
C23_OptionalFields ==
  [][\A t \in Threads :
       Wrote(t) =>
         /\ (Written(t).content # None) <=> (th[t].content # None /\ th[t].content[1] # "")
         /\ Written(t).content # None => Written(t).content = th[t].content
         /\ Written(t).ext = th[t].meta.ext
         /\ Written(t).path = th[t].meta.path
         /\ Written(t).name = th[t].meta.name
         /\ Written(t).name_raw = th[t].meta.name
         /\ Written(t).identity = identity(th[t].meta)
         /\ Written(t).mtime = th[t].meta.modified_at
         /\ Written(t).size = th[t].meta.size
         /\ Written(t).inode = th[t].meta.inode
         /\ Written(t).dev = th[t].meta.dev]_vars

\* A call with empty content and an ext of "" returned: the document it
\* staged has no content field and has the ext field.
C23_EmptyContentOmitted ==
  /\ ret.op = "add" /\ ret.ok
  /\ ret.call.content = Some("")
  /\ ret.call.meta.ext = Some("")
  /\ \E k \in DOMAIN handles[INDEX_STATE].writer :
       /\ handles[INDEX_STATE].writer[k].identity = identity(ret.call.meta)
       /\ handles[INDEX_STATE].writer[k].content = None
       /\ handles[INDEX_STATE].writer[k].ext = Some("")

\* ------------------------------------------------------------- commit
\* ------------------------------------------------------------- properties
\* Nothing was written to the writer of handle h since its last commit, and
\* the reader has loaded that commit.
NothingToCommit(h) ==
  /\ handles[h].writer = disk[handles[h].dir]
  /\ handles[h].reader = disk[handles[h].dir]

\* C24: a commit that runs with nothing written since the last commit
\* succeeds unless the library fails, and its steps leave the committed
\* documents, the reader snapshot and the result of every search as they
\* were.
C24_CommitIdempotent ==
  [][\A t \in Threads, h \in DOMAIN handles :
       (/\ th[t].pc \in { "commit_lock", "commit_reload" }
        /\ th[t].h = h
        /\ th'[t] # th[t]
        /\ NothingToCommit(h))
         => /\ disk' = disk
            /\ h \in DOMAIN handles'
            /\ searcher(h)' = searcher(h)
            /\ \A query \in Queries :
                 RunQuery(searcher(h)', query) = RunQuery(searcher(h), query)
            /\ faults' = faults
                 => \/ th[t].pc = "commit_lock" /\ th'[t].pc = "commit_reload"
                    \/ th[t].pc = "commit_reload" /\ ret'.op = "commit" /\ ret'.ok]_vars

\* A second commit, with no add since the first returned, has run
\* writer.commit().
C24_SecondCommit ==
  \E t \in Threads :
    /\ th[t].pc = "commit_reload"
    /\ NothingToCommit(th[t].h)
    /\ disk[handles[th[t].h].dir] # <<>>
    /\ handles[th[t].h].visible = th[t].need
    /\ th[t].need # ZeroStamps
    /\ handles[th[t].h].broken = {}

\* A step of thread t inside add_or_update_file.
AddStep(t) ==
  \/ th[t].pc \in { "add_find", "add_lock", "add_doc" } /\ th'[t] # th[t]
  \/ th[t].pc = "idle" /\ th'[t].pc \in { "add_find", "add_lock" }
  \/ ret'.op = "add" /\ ret'.t = t /\ calls' = calls + 1

\* C25: no step of add_or_update_file changes the snapshot search runs on,
\* or the result of a search; the snapshot of the installed handle changes
\* only by loading what the last writer.commit() published.
C25_OnlyCommitChangesSnapshot ==
  [][\A h \in DOMAIN handles :
       (INDEX_STATE = h /\ INDEX_STATE' = h)
         => /\ \A t \in Threads :
                 AddStep(t) =>
                   /\ searcher(h)' = searcher(h)
                   /\ \A query \in Queries :
                        RunQuery(searcher(h)', query) = RunQuery(searcher(h), query)
            /\ searcher(h)' # searcher(h)
                 => /\ disk' = disk
                    /\ searcher(h)' = disk[handles[h].dir]]_vars

\* An add has written a document that the reader snapshot does not hold.
C25_UncommittedAdd ==
  /\ ret.op = "add" /\ ret.ok /\ ret.val = "Added"
  /\ INDEX_STATE # NoHandle
  /\ \E k \in DOMAIN handles[INDEX_STATE].writer :
       /\ handles[INDEX_STATE].writer[k].identity = identity(ret.call.meta)
       /\ \A j \in DOMAIN handles[INDEX_STATE].reader :
            handles[INDEX_STATE].reader[j] # handles[INDEX_STATE].writer[k]
  /\ handles[INDEX_STATE].reader = disk[handles[INDEX_STATE].dir]

\* ------------------------------------------------------------- classification
\* ------------------------------------------------------------- properties
\* C29: the lookup of add_or_update_file decides on the reader snapshot
\* alone: with no document of the identity in the snapshot the call goes on
\* as Added, Updated and Skipped need a document of the identity in the
\* snapshot, and the call returns what the lookup decided whatever the
\* writer holds.
C29_ClassifiedBySnapshot ==
  [][\A t \in Threads, h \in DOMAIN handles :
       /\ (th[t].pc = "add_find" /\ th[t].h = h /\ th'[t] # th[t])
            => /\ (TermQuery(searcher(h), identity(th[t].meta)) = <<>> /\ faults' = faults)
                    => th'[t].pc = "add_lock" /\ th'[t].update = "Added"
               /\ (\/ th'[t].pc = "add_lock" /\ th'[t].update = "Updated"
                   \/ th'[t].pc = "idle" /\ ret'.op = "add" /\ ret'.ok /\ ret'.val = "Skipped")
                    => TermQuery(searcher(h), identity(th[t].meta)) # <<>>
       /\ (th[t].pc = "add_doc" /\ th[t].h = h /\ ret'.op = "add" /\ ret'.ok /\ ret'.t = t)
            => /\ ret'.val = th[t].update
               /\ th[t].force => ret'.val = "Added"]_vars

\* A call returned Added although an earlier, uncommitted add had written a
\* document of the same identity.
C29_AddedAfterUncommittedAdd ==
  /\ ret.op = "add" /\ ret.ok /\ ret.val = "Added"
  /\ ~ret.call.force
  /\ ret.call.prev # None
  /\ INDEX_STATE # NoHandle
  /\ TermQuery(handles[INDEX_STATE].reader, identity(ret.call.meta)) = <<>>
  /\ TermQuery(disk[handles[INDEX_STATE].dir], identity(ret.call.meta)) = <<>>

\* The identities of the documents of an index.
IdentitiesIn(docs) == { docs[k].identity : k \in DOMAIN docs }

\* C30: the committed index changes only in writer.commit(), and when no
\* add_or_update_file call of the handle has failed in the writer, every
\* identity committed before is committed after: a document leaves the
\* index only for a document of its own identity.
C30_IdentitiesKept ==
  [][\A d \in Dirs :
       disk'[d] # disk[d]
         => \E t \in Threads :
              /\ th[t].pc = "commit_lock" /\ th'[t].pc = "commit_reload"
              /\ handles[th[t].h].dir = d
              /\ handles[th[t].h].broken = {}
                   => IdentitiesIn(disk[d]) \subseteq IdentitiesIn(disk'[d])]_vars

\* writer.commit() has replaced a committed document: the reader still holds
\* the old document of an identity, the committed index the new one.
C30_ReplacedByCommit ==
  \E t \in Threads :
    /\ th[t].pc = "commit_reload"
    /\ handles[th[t].h].broken = {}
    /\ \E j \in DOMAIN handles[th[t].h].reader, k \in DOMAIN disk[handles[th[t].h].dir] :
         /\ handles[th[t].h].reader[j].identity = disk[handles[th[t].h].dir][k].identity
         /\ handles[th[t].h].reader[j].op < disk[handles[th[t].h].dir][k].op

\* ------------------------------------------------------------- scope
\* ------------------------------------------------------------- properties
\* A search of a non-blank term, with no glob, returned its hits.
ScopeSearchReturned ==
  /\ ret.op = "search" /\ ret.ok /\ trim(ret.call.query.term) # ""
  /\ ret.call.query.path_glob = None

\* The paths of the hits returned.
HitPaths == { ret.hits[k].path : k \in DOMAIN ret.hits }

\* The documents of the snapshot searched whose name, and whose content,
\* holds every word of the term.
NameHolds(doc, term) == Tokens(term) \subseteq Tokens(doc.name)
ContentHolds(doc, term) == doc.content # None /\ Tokens(term) \subseteq Tokens(doc.content[1])

\* C27 as stated: in Name or Both scope with a term without whitespace,
\* every committed document whose name_raw begins with the term is returned
\* (as far as the limit goes), also when no token of its name is the term;
\* and a term that is neither a token nor a prefix of a name, nor in scope
\* in a content, returns nothing.
C27_PrefixFinds ==
  (/\ ScopeSearchReturned
   /\ NameInScope(ret.call.query)
   /\ ~contains_whitespace(trim(ret.call.query.term)))
    => /\ Len(ret.snap) <= limit_max_1(ret.call.query.limit)
            => \A k \in DOMAIN ret.snap :
                 StartsWith(ret.snap[k].name_raw, trim(ret.call.query.term))
                   => ret.snap[k].path \in HitPaths
       /\ (\A k \in DOMAIN ret.snap :
             /\ ~StartsWith(ret.snap[k].name_raw, trim(ret.call.query.term))
             /\ ~NameHolds(ret.snap[k], trim(ret.call.query.term))
             /\ ~(ContentInScope(ret.call.query) /\ ContentHolds(ret.snap[k], trim(ret.call.query.term))))
            => ret.hits = <<>>

C31_ForceAlwaysAdds ==
  [][\A t \in Threads :
       /\ th'[t].force => th'[t].pc \in { "add_lock", "add_doc" } /\ th'[t].existing = None
       /\ (th[t].force /\ th[t].pc # "idle" /\ th'[t].pc = "idle" /\ ret'.ok)
            => /\ ret'.op = "add" /\ ret'.t = t
               /\ ret'.val = "Added"
               /\ ret'.call.existing = None
               /\ th[t].pc = "add_doc"
               /\ TermQuery(handles'[th[t].h].writer, identity(th[t].meta))
                    = << BuildDocument(th[t].meta, th[t].content, handles'[th[t].h].opstamp) >>]_vars

\* A forced add returned Added although the reader snapshot holds a document
\* of the identity with the same mtime and size.
C31_ForcedOverIdentical ==
  /\ ret.op = "add" /\ ret.ok /\ ret.val = "Added"
  /\ ret.call.force
  /\ ret.call.h \in DOMAIN handles
  /\ LET existing == find_existing(searcher(ret.call.h), identity(ret.call.meta))
     IN existing # None /\ matches_meta(existing[1], ret.call.meta)

\* ------------------------------------------------------------- glob
\* ------------------------------------------------------------- post-filter
\* A search of a non-blank term with a glob returned its hits.
GlobSearchReturned ==
  /\ ret.op = "search" /\ ret.ok /\ trim(ret.call.query.term) # ""
  /\ ret.call.query.path_glob # None
  /\ ret.call.query.path_glob[1] \notin BlankTerms

\* C32: the hits of a search with a path glob are the hits of the same
\* search without the glob, its top max(limit, 1), that match the glob, in
\* the same order: a document matching term and glob that is not among those
\* top max(limit, 1) is not returned.
C32_GlobFiltersTopK ==
  GlobSearchReturned =>
    ret.hits = SelectSeq(RunQuery(ret.snap, WithoutGlob(ret.call.query)),
                 LAMBDA hit : GlobMatches(Stripped(ret.call.query.path_glob[1]), hit.path))

\* With limit 1, hello.txt took the one place by its name and was dropped by
\* the glob; a.txt, which matches the term by its content and the glob by
\* its path, was not returned.
C32_MatchBelowTopK ==
  /\ GlobSearchReturned
  /\ ret.call.query.limit = 1
  /\ ret.call.query.term = "hello" /\ ret.call.query.search_in = "Both"
  /\ ret.hits = <<>>
  /\ \E k \in DOMAIN ret.snap : ret.snap[k].path = "hello.txt"
  /\ \E k \in DOMAIN ret.snap :
       /\ ret.snap[k].path = "a.txt"
       /\ GlobMatches(ret.call.query.path_glob[1], ret.snap[k].path)
       /\ ContentHolds(ret.snap[k], "hello")

\* ------------------------------------------------------------- lock order
\* The thread holds the writer mutex of some handle.
HoldsWriterMutex(t) == \E h \in DOMAIN handles : handles[h].lock = t

\* The thread is at handle.writer.lock().
WaitsForWriterMutex(t) == th[t].pc \in { "add_lock", "commit_lock" }

\* No thread holding a guard on INDEX_STATE waits for or holds the writer
\* mutex, and no thread holding the writer mutex is at, or inside, a lock
\* of INDEX_STATE.
LockOrder ==
  \A t \in Threads :
    /\ th[t].slot # "none" => ~WaitsForWriterMutex(t) /\ ~HoldsWriterMutex(t)
    /\ HoldsWriterMutex(t) => th[t].pc \notin ReadStages \cup WriteStages

\* C33: under every interleaving of init_index, add_or_update_file, commit,
\* search and close on two threads the lock order above is kept, and every
\* call that was made returns.
C33_NoDeadlock ==
  /\ []LockOrder
  /\ \A t \in Threads : (th[t].pc # "idle") ~> (th[t].pc = "idle")

\* A close waits for the write guard while the other thread, inside
\* add_or_update_file, holds the writer mutex.
C33_CloseDuringAdd ==
  \E t, u \in Threads :
    /\ th[t].pc = "close_slot" /\ th[t].slot = "none"
    /\ th[u].pc = "add_doc" /\ HoldsWriterMutex(u)

\* ------------------------------------------------------------- close
\* C34: close leaves the committed index of every directory as it is; the
\* committed index changes only in the writer.commit() of a commit call; and
\* a successful init_index serves, in its reader and in its writer, what was
\* last committed to the directory, so that what a dropped writer held
\* uncommitted is not there.
C34_CloseDoesNotCommit ==
  [][/\ disk' # disk
          => \E t \in Threads : th[t].pc = "commit_lock" /\ th'[t].pc = "commit_reload"
     /\ (calls' = calls + 1 /\ ret'.op = "close") => disk' = disk
     /\ (calls' = calls + 1 /\ ret'.op = "init" /\ ret'.ok)
          => /\ INDEX_STATE' # NoHandle
             /\ handles'[INDEX_STATE'].reader = disk[handles'[INDEX_STATE'].dir]
             /\ handles'[INDEX_STATE'].writer = disk[handles'[INDEX_STATE'].dir]]_vars

\* An add_or_update_file that got its handle before a close returned Added
\* after it; the handle is dropped, the slot is empty, and the committed
\* index holds no document of that identity.
C34_AddLostAtClose ==
  /\ ret.op = "add" /\ ret.ok /\ ret.val = "Added"
  /\ INDEX_STATE = NoHandle
  /\ \A t \in Threads : th[t].pc = "idle"
  /\ \A d \in Dirs : TermQuery(disk[d], identity(ret.call.meta)) = <<>>

\* ------------------------------------------------------------- C ABI:
\* ------------------------------------------------------------- adding
\* The pointer is null, or the empty string.
NullOrEmpty(ptr) == ptr = None \/ ptr = Some("")

\* C35: fc_add_or_update on a null meta, or a meta whose path or name is
\* null, returns false and touches nothing of the index.  Otherwise it calls
\* add_or_update_file with the path, name and numbers of the meta, no ext
\* for a null or empty ext, no content for a null content and
\* force_reindex = false, and it returns true exactly when that call
\* returns Ok, be it Added, Updated or Skipped.
C35_FcAddOrUpdate ==
  [][(ffi_call' # ffi_call /\ ffi_call'.fn = "fc_add_or_update")
       => LET c == ffi_call'
          IN IF c.meta = None \/ c.meta[1].path = None \/ c.meta[1].name = None
               THEN /\ c.returned = Some(FALSE)
                    /\ UNCHANGED <<INDEX_STATE, handles, disk, th, ret>>
               ELSE IF c.returned = None
               THEN /\ th'["t1"].pc # "idle"
                    /\ th'["t1"].force = FALSE
                    /\ th'["t1"].meta.path = c.meta[1].path[1]
                    /\ th'["t1"].meta.name = c.meta[1].name[1]
                    /\ th'["t1"].meta.ext = IF NullOrEmpty(c.meta[1].ext) THEN None ELSE c.meta[1].ext
                    /\ th'["t1"].meta.modified_at = c.meta[1].mtime
                    /\ th'["t1"].meta.size = c.meta[1].size
                    /\ th'["t1"].meta.inode = c.meta[1].inode
                    /\ th'["t1"].meta.dev = c.meta[1].dev
                    /\ th'["t1"].content = c.content
               ELSE /\ ret'.op = "add"
                    /\ ret'.call.force = FALSE
                    /\ c.returned = Some(ret'.ok)
                    /\ ret'.ok => ret'.val \in { "Added", "Updated", "Skipped" }]_vars

\* fc_add_or_update returned true for a file that was skipped: the meta
\* came with an empty ext and a null content.
C35_SkippedReturnsTrue ==
  /\ ffi_call.fn = "fc_add_or_update"
  /\ ffi_call.returned = Some(TRUE)
  /\ ffi_call.meta[1].ext = Some("") /\ ffi_call.content = None
  /\ ret.op = "add" /\ ret.val = "Skipped"
  /\ ret.call.meta.ext = None

\* ------------------------------------------------------------- plain text
\* The control bytes among the first w bytes of a file.
ControlBytes(file, w) ==
  { k \in 1..w : file[k] < 9 \/ file[k] \in 14..31 }

\* C36: read_plain_text returns no content, was_binary = false and
\* bytes_read = 0 for a file larger than size_limit; no content,
\* was_binary = true and bytes_read = the length of the sniffed head when the
\* first min(sniff_bytes, size) bytes hold a NUL byte or more than a tenth
\* of control bytes; and otherwise the text of the whole file,
\* was_binary = false and bytes_read = its length, at most size_limit.
C36_ReadPlainText ==
  ret.op = "read_plain_text" =>
    LET file == ret.file
        x == ret.extraction
        w == min(ret.sniff_bytes, Len(file))
    IN IF Len(file) > ret.size_limit
         THEN x.content = None /\ ~x.was_binary /\ x.bytes_read = 0
         ELSE IF \/ \E k \in 1..w : file[k] = 0
                 \/ 10 * Cardinality(ControlBytes(file, w)) > w
         THEN x.content = None /\ x.was_binary /\ x.bytes_read = w
         ELSE /\ x.content # None
              /\ Len(x.content[1]) = Len(file)
              /\ \A k \in DOMAIN file : file[k] < 128 => x.content[1][k] = file[k]
              /\ ~x.was_binary
              /\ x.bytes_read = Len(file)
              /\ x.bytes_read <= ret.size_limit

\* A file without a NUL byte was taken for binary by its control bytes: two
\* among the ten bytes sniffed.
C36_BinaryByControlBytes ==
  /\ ret.op = "read_plain_text"
  /\ ret.extraction.was_binary
  /\ ret.extraction.bytes_read = 10
  /\ \A k \in DOMAIN ret.file : ret.file[k] # 0
  /\ Cardinality(ControlBytes(ret.file, 10)) = 2

====
